---- MODULE Spec2Model ----
(***************************************************************************)
(* ESP32_AI_Connect: the conversation orchestrator (ESP32_AI_Connect.cpp)  *)
(* and the tool-call response parsers of the vendor adapters (Claude,      *)
(* Gemini, DeepSeek).  One action per public operation; the transport and  *)
(* the vendor's answer are inputs chosen by the environment.               *)
(*                                                                         *)
(* A C++ String that may hold either text or a serialized tool-call array  *)
(* is a record [kind, text, calls]: Txt(s) is the text s, Arr(c) is the    *)
(* serialization of the JSON array c.  The empty String is Txt("").        *)
(* deserializeJson succeeds on Arr(c) only: the texts of the model are     *)
(* prose (or empty), on which deserializeJson reports an error.            *)
(***************************************************************************)
EXTENDS Integers, Sequences, FiniteSets, TLC

\* ------------------------------------------------------------------ values
ABSENT == "<absent>"

Txt(s) == [kind |-> "text", text |-> s, calls |-> <<>>]

Arr(c) == [kind |-> "array", text |-> "", calls |-> c]

EmptyStr == Txt("")

isEmpty(s) == s.kind = "text" /\ s.text = ""

\* deserializeJson(doc, s) reports no error
parsesAsJson(s) == s.kind = "array"

\* a tool call of the uniform array; a key the element lacks is ABSENT
Call(id, type, name, args) == [id |-> id, type |-> type, name |-> name, args |-> args]

\* ------------------------------------------------------------------ bounds
\* calls made on the client after its construction
MaxCalls == 4

\* ------------------------------------------------------- program constants
AI_API_REQ_JSON_DOC_SIZE == 2048

HTTP_CODE_OK == 200

\* ----------------------------------------------------------------- inputs
Messages == {"m1", "m2"}

\* chat's message takes no part in what chat leaves behind
ChatMessages == {"hello"}

\* platform identifiers passed to begin
PlatformNames == {"claude", "Gemini", "deepseek", "nope"}

\* String::toLowerCase on the identifiers above
toLowerCase(p) == IF p = "Gemini" THEN "gemini" ELSE p

\* the DeepSeek adapter exists in two revisions (with and without the
\* finish_reason dispatch in parseToolCallsResponseBody)
DeepSeekRevisions == {"part_007", "part_008"}

\* tool definitions handed to setTCTools: JSON text, described by what the
\* validation reads from it
ToolDef(nm, len, json, hasName, hasType, hasFunction, fnHasName, hasParams, fnHasParams, nullParams) ==
    [nm |-> nm, len |-> len, json |-> json, hasName |-> hasName, hasType |-> hasType,
     hasFunction |-> hasFunction, fnHasName |-> fnHasName,
     hasParams |-> hasParams, fnHasParams |-> fnHasParams, nullParams |-> nullParams]

T_weather == ToolDef("get_weather", 300, TRUE, TRUE, FALSE, FALSE, FALSE, TRUE, FALSE, FALSE)

T_light == ToolDef("set_light", 400, TRUE, FALSE, TRUE, TRUE, TRUE, FALSE, TRUE, FALSE)

T_noparams == ToolDef("no_params", 100, TRUE, TRUE, FALSE, FALSE, FALSE, FALSE, FALSE, FALSE)

T_noname == ToolDef("", 100, TRUE, FALSE, TRUE, TRUE, FALSE, FALSE, TRUE, FALSE)

T_badjson == ToolDef("bad", 50, FALSE, FALSE, FALSE, FALSE, FALSE, FALSE, FALSE, FALSE)

T_big == ToolDef("big", 800, TRUE, TRUE, FALSE, FALSE, FALSE, TRUE, FALSE, FALSE)

\* {"name":"","parameters":null}: both keys are there, neither holds anything
T_blank == ToolDef("", 30, TRUE, TRUE, FALSE, FALSE, FALSE, TRUE, FALSE, TRUE)

ToolArrays ==
    { <<>>, <<T_weather, T_light>>, <<T_light, T_noparams>>,
      <<T_weather, T_noname>>, <<T_light, T_badjson>>, <<T_big, T_light>> }

\* the arrays tried on the registry alone: ToolArrays and arrays with a
\* definition whose keys are there but hold nothing
RegistryToolArrays ==
    ToolArrays \cup { <<T_blank>>, <<T_weather, T_blank>>, <<T_weather>> }

\* ------------------------------------------------- vendor response bodies
\* A response body is described by what the parsers read from it.

\* Claude: a content block {type, id, name, input, text}
Block(type, id, name, input, text) ==
    [type |-> type, id |-> id, name |-> name, input |-> input, text |-> text]

ClaudeBody(json, error, stop, hasContent, content) ==
    [json |-> json, error |-> error, stop |-> stop, hasContent |-> hasContent,
     content |-> content]

TextBlock(t) == Block("text", ABSENT, ABSENT, ABSENT, t)

ToolUse(id, name, input) == Block("tool_use", id, name, input, ABSENT)

\* DeepSeek (OpenAI wire format): choices[0] {finish_reason, message{tool_calls, content}}
DeepSeekBody(json, error, hasChoices, finish, hasMessage, hasToolCalls, toolCalls, content) ==
    [json |-> json, error |-> error, hasChoices |-> hasChoices, finish |-> finish,
     hasMessage |-> hasMessage, hasToolCalls |-> hasToolCalls, toolCalls |-> toolCalls,
     content |-> content]

\* Gemini: candidates[0] {finishReason, content{parts[]}}; a part holds a
\* functionCall {name, args} or a text
Part(kind, name, args, text) == [kind |-> kind, name |-> name, args |-> args, text |-> text]

GeminiBody(json, error, hasCandidates, finish, hasContent, hasParts, parts) ==
    [json |-> json, error |-> error, hasCandidates |-> hasCandidates, finish |-> finish,
     hasContent |-> hasContent, hasParts |-> hasParts, parts |-> parts]

ArgsParis == "{\"city\":\"Paris\"}"

ArgsOn == "{\"on\":true}"

ClaudeBodies ==
    [ c_text    |-> ClaudeBody(TRUE, FALSE, "end_turn", TRUE, <<TextBlock("hello")>>),
      c_tool    |-> ClaudeBody(TRUE, FALSE, "tool_use", TRUE,
                      <<TextBlock("checking"), ToolUse("tu_1", "get_weather", ArgsParis)>>),
      c_toolB   |-> ClaudeBody(TRUE, FALSE, "tool_use", TRUE,
                      <<ToolUse("tu_2", "set_light", ABSENT),
                        ToolUse("tu_4", "get_weather", ArgsParis)>>),
      c_trunc   |-> ClaudeBody(TRUE, FALSE, "max_tokens", TRUE,
                      <<ToolUse("tu_3", "get_weather", ArgsParis)>>),
      c_nocont  |-> ClaudeBody(TRUE, FALSE, "tool_use", FALSE, <<>>),
      c_empty   |-> ClaudeBody(TRUE, FALSE, "end_turn", TRUE, <<>>),
      c_error   |-> ClaudeBody(TRUE, TRUE, ABSENT, FALSE, <<>>) ]

DeepSeekBodies ==
    [ d_text    |-> DeepSeekBody(TRUE, FALSE, TRUE, "stop", TRUE, FALSE, <<>>, "hello"),
      d_tool    |-> DeepSeekBody(TRUE, FALSE, TRUE, "tool_calls", TRUE, TRUE,
                      <<Call("call_1", "function", "get_weather", ArgsParis)>>, ABSENT),
      d_toolB   |-> DeepSeekBody(TRUE, FALSE, TRUE, "tool_calls", TRUE, TRUE,
                      <<Call("call_2", "function", "set_light", ArgsOn)>>, ABSENT),
      d_tc_stop |-> DeepSeekBody(TRUE, FALSE, TRUE, "stop", TRUE, TRUE,
                      <<Call("call_3", "function", "get_weather", ArgsParis)>>, ABSENT),
      d_length  |-> DeepSeekBody(TRUE, FALSE, TRUE, "length", TRUE, FALSE, <<>>, "partial"),
      d_nomsg   |-> DeepSeekBody(TRUE, FALSE, TRUE, "tool_calls", FALSE, FALSE, <<>>, ABSENT),
      d_error   |-> DeepSeekBody(TRUE, TRUE, FALSE, ABSENT, FALSE, FALSE, <<>>, ABSENT) ]

GeminiBodies ==
    [ g_text    |-> GeminiBody(TRUE, FALSE, TRUE, "STOP", TRUE, TRUE,
                      <<Part("text", ABSENT, ABSENT, "hello")>>),
      g_call    |-> GeminiBody(TRUE, FALSE, TRUE, "STOP", TRUE, TRUE,
                      <<Part("functionCall", "get_weather", ArgsParis, ABSENT)>>),
      g_callB   |-> GeminiBody(TRUE, FALSE, TRUE, "STOP", TRUE, TRUE,
                      <<Part("text", ABSENT, ABSENT, "checking"),
                        Part("functionCall", "set_light", ABSENT, ABSENT)>>),
      g_noname  |-> GeminiBody(TRUE, FALSE, TRUE, "STOP", TRUE, TRUE,
                      <<Part("functionCall", ABSENT, ABSENT, ABSENT)>>),
      g_safety  |-> GeminiBody(TRUE, FALSE, TRUE, "SAFETY", FALSE, FALSE, <<>>),
      g_blank   |-> GeminiBody(TRUE, FALSE, TRUE, "STOP", TRUE, TRUE,
                      <<Part("text", ABSENT, ABSENT, "")>>),
      g_error   |-> GeminiBody(TRUE, TRUE, FALSE, ABSENT, FALSE, FALSE, <<>>) ]

\* the bodies the environment may answer with, per active adapter
BodyIds(h) ==
    CASE h = "claude"   -> DOMAIN ClaudeBodies
      [] h = "gemini"   -> DOMAIN GeminiBodies
      [] h = "deepseek" -> DOMAIN DeepSeekBodies
      [] OTHER          -> {}

\* the bodies the environment answers a tcReply follow-up with
ReplyBodyIds(h) ==
    CASE h = "claude"   -> {"c_text", "c_toolB", "c_trunc", "c_nocont", "c_error"}
      [] h = "gemini"   -> {"g_text", "g_callB", "g_noname", "g_safety", "g_error"}
      [] h = "deepseek" -> {"d_text", "d_toolB", "d_tc_stop", "d_nomsg", "d_error"}
      [] OTHER          -> {}

\* the bodies the environment answers a plain chat with
ChatBodyIds(h) ==
    CASE h = "claude"   -> {"c_text", "c_error"}
      [] h = "gemini"   -> {"g_text", "g_safety"}
      [] h = "deepseek" -> {"d_text", "d_nomsg"}
      [] OTHER          -> {}

\* the transport's part in one call: HTTPClient::begin result, POST result (a
\* negative library error, 200, or another status) and the body received
NetOutcomes(bodies) ==
    { [connect |-> FALSE, code |-> 0, body |-> ""] }
    \cup { [connect |-> TRUE, code |-> -1, body |-> ""] }
    \cup { [connect |-> TRUE, code |-> 500, body |-> "e500"] }
    \cup { [connect |-> TRUE, code |-> HTTP_CODE_OK, body |-> b] : b \in bodies }

\* ---------------------------------------------------------------- parsers
\* A parser's result: the returned String, errorMsg after the call (errIn
\* is errorMsg before it) and the handler's _lastFinishReason after it.
ParseResult(ret, err, finish) == [ret |-> ret, err |-> err, finish |-> finish]

RECURSIVE ConcatText(_)
\* responseText += contentBlock["text"] over the blocks of type text
ConcatText(blocks) ==
    IF blocks = <<>> THEN ""
    ELSE (IF Head(blocks).type = "text" THEN Head(blocks).text ELSE "")
         \o ConcatText(Tail(blocks))

IsToolUse(b) == b.type = "tool_use"

\* one tool_use block re-expressed as an element of the uniform array
ClaudeToolCall(b) ==
    Call(b.id, "function", b.name, IF b.input # ABSENT THEN b.input ELSE "{}")

ClaudeToolCalls(content) ==
    LET uses == SelectSeq(content, IsToolUse)
    IN  [i \in 1..Len(uses) |-> ClaudeToolCall(uses[i])]

Claude_parseToolCallsResponseBody(p, errIn) ==
    LET finish == IF p.stop # ABSENT THEN p.stop ELSE ""
        hasToolUse == \E i \in 1..Len(p.content) : IsToolUse(p.content[i])
    IN  IF ~p.json THEN ParseResult(EmptyStr, "JSON parsing error", "")
        ELSE IF p.error THEN ParseResult(EmptyStr, "API error", "")
        ELSE IF ~p.hasContent
             THEN ParseResult(EmptyStr, "No content array found in response", finish)
        ELSE IF hasToolUse
             THEN ParseResult(Arr(ClaudeToolCalls(p.content)), errIn, finish)
        ELSE ParseResult(Txt(ConcatText(p.content)), errIn, finish)

Claude_parseResponseBody(p, errIn) ==
    IF ~p.json THEN ParseResult(EmptyStr, "JSON parsing error", "")
    ELSE IF p.error THEN ParseResult(EmptyStr, "API error", "")
    ELSE IF p.hasContent /\ Len(p.content) > 0
         THEN ParseResult(Txt(ConcatText(p.content)), errIn,
                          IF p.stop # ABSENT THEN p.stop ELSE "")
    ELSE ParseResult(EmptyStr, "No valid content in response", "")

IsFunctionCall(pt) == pt.kind = "functionCall"

IsText(pt) == pt.kind = "text"

\* one functionCall part re-expressed as an element of the uniform array:
\* no id; function{name, arguments} only when the part names the function
GeminiToolCall(pt) == Call(ABSENT, "function", pt.name, IF pt.name # ABSENT THEN pt.args ELSE ABSENT)

GeminiToolCalls(parts) ==
    LET fcs == SelectSeq(parts, IsFunctionCall)
    IN  [i \in 1..Len(fcs) |-> GeminiToolCall(fcs[i])]

Gemini_parseToolCallsResponseBody(p, errIn) ==
    LET hasFunctionCall == \E i \in 1..Len(p.parts) : IsFunctionCall(p.parts[i])
        texts == SelectSeq(p.parts, IsText)
    IN  IF ~p.json THEN ParseResult(EmptyStr, "JSON Deserialization failed", "")
        ELSE IF p.error THEN ParseResult(EmptyStr, "API Error", "")
        ELSE IF ~(p.hasCandidates /\ p.hasContent)
             THEN ParseResult(EmptyStr, "Invalid Gemini response format", "")
        ELSE IF ~p.hasParts
             THEN ParseResult(EmptyStr, "Could not find 'parts' array in response 'content'", "")
        ELSE IF hasFunctionCall
             THEN ParseResult(Arr(GeminiToolCalls(p.parts)), "", "tool_calls")
        ELSE IF texts # <<>>
             THEN ParseResult(Txt(texts[1].text), "", "stop")
        ELSE ParseResult(EmptyStr, "Response contained neither function calls nor text content", "")

Gemini_parseResponseBody(p, errIn) ==
    LET finish == IF p.finish # ABSENT THEN p.finish ELSE ""
    IN  IF ~p.json THEN ParseResult(EmptyStr, "JSON Deserialization failed", "")
        ELSE IF p.error THEN ParseResult(EmptyStr, "API Error", "")
        ELSE IF ~p.hasCandidates
             THEN ParseResult(EmptyStr, "Invalid Gemini response format", "")
        ELSE IF p.finish # ABSENT /\ p.finish # "STOP" /\ p.finish # "MAX_TOKENS"
             THEN ParseResult(EmptyStr, "Gemini response stopped", finish)
        ELSE IF ~p.hasContent
             THEN ParseResult(EmptyStr, "Could not find 'content' object in response 'candidates'.", finish)
        ELSE IF ~(p.hasParts /\ Len(p.parts) > 0)
             THEN ParseResult(EmptyStr, "Could not find 'parts' array or it was empty in response 'content'.", finish)
        ELSE IF IsText(p.parts[1])
             THEN ParseResult(Txt(p.parts[1].text), "", finish)
        ELSE ParseResult(EmptyStr, "Could not find 'text' field in response 'parts'.", finish)

\* DeepSeek, revision part_007: tool_calls are returned whenever the message
\* holds them, whatever the finish_reason
DeepSeek7_parseToolCallsResponseBody(p, errIn) ==
    LET finish == IF p.hasChoices /\ p.finish # ABSENT THEN p.finish ELSE ""
    IN  IF ~p.json THEN ParseResult(EmptyStr, "JSON Deserialization failed", "")
        ELSE IF p.error THEN ParseResult(EmptyStr, "API Error", "")
        ELSE IF p.hasChoices /\ p.hasMessage /\ p.hasToolCalls
             THEN ParseResult(Arr(p.toolCalls), "", finish)
        ELSE IF p.hasChoices /\ p.hasMessage /\ p.content # ABSENT
             THEN ParseResult(Txt(p.content), "", finish)
        ELSE ParseResult(EmptyStr, "Could not find 'choices[0].message.content' or 'choices[0].message.tool_calls' in response.", finish)

\* DeepSeek, revision part_008: dispatch on the finish_reason
DeepSeek8_parseToolCallsResponseBody(p, errIn) ==
    LET finish == IF p.hasChoices /\ p.finish # ABSENT THEN p.finish ELSE ""
    IN  IF ~p.json THEN ParseResult(EmptyStr, "JSON Deserialization failed", "")
        ELSE IF p.error THEN ParseResult(EmptyStr, "API Error", "")
        ELSE IF ~p.hasChoices THEN ParseResult(EmptyStr, "No 'choices' array in API response", "")
        ELSE IF ~p.hasMessage THEN ParseResult(EmptyStr, "No 'message' field in API response", finish)
        ELSE IF finish = "tool_calls"
             THEN IF p.hasToolCalls
                  THEN ParseResult(Arr(p.toolCalls), "", finish)
                  ELSE ParseResult(EmptyStr, "Missing 'tool_calls' array in response with 'tool_calls' finish_reason", finish)
        ELSE IF finish = "stop"
             THEN IF p.content # ABSENT
                  THEN ParseResult(Txt(p.content), "", finish)
                  ELSE ParseResult(EmptyStr, "Missing 'content' in message with 'stop' finish_reason", finish)
        ELSE ParseResult(IF p.content # ABSENT THEN Txt(p.content) ELSE EmptyStr,
                         "Unexpected finish_reason", finish)

DeepSeek_parseResponseBody(p, errIn) ==
    LET finish == IF p.hasChoices /\ p.finish # ABSENT THEN p.finish ELSE ""
    IN  IF ~p.json THEN ParseResult(EmptyStr, "JSON Deserialization failed", "")
        ELSE IF p.error THEN ParseResult(EmptyStr, "API Error", "")
        ELSE IF p.hasChoices /\ p.hasMessage /\ p.content # ABSENT
             THEN ParseResult(Txt(p.content), "", finish)
        ELSE ParseResult(EmptyStr, "Could not find 'choices[0].message.content' in response.", finish)

\* virtual dispatch on the active handler; rev is the DeepSeek revision
parseToolCallsResponseBody(h, rev, body, errIn) ==
    CASE h = "claude" -> Claude_parseToolCallsResponseBody(ClaudeBodies[body], errIn)
      [] h = "gemini" -> Gemini_parseToolCallsResponseBody(GeminiBodies[body], errIn)
      [] h = "deepseek" /\ rev = "part_007" ->
             DeepSeek7_parseToolCallsResponseBody(DeepSeekBodies[body], errIn)
      [] h = "deepseek" /\ rev = "part_008" ->
             DeepSeek8_parseToolCallsResponseBody(DeepSeekBodies[body], errIn)

parseResponseBody(h, body, errIn) ==
    CASE h = "claude"   -> Claude_parseResponseBody(ClaudeBodies[body], errIn)
      [] h = "gemini"   -> Gemini_parseResponseBody(GeminiBodies[body], errIn)
      [] h = "deepseek" -> DeepSeek_parseResponseBody(DeepSeekBodies[body], errIn)

\* ------------------------------------------------------------ token counts
\* the usage a response body reports: <<>> when it reports none, Claude's
\* <<usage.input_tokens, usage.output_tokens>>, Gemini's
\* <<usageMetadata.totalTokenCount>>, DeepSeek's <<usage.total_tokens>>
Usage ==
    [ c_text |-> <<5, 7>>, c_tool |-> <<20, 10>>, c_toolB |-> <<20, 10>>,
      c_trunc |-> <<20, 10>>, c_nocont |-> <<20, 10>>, c_empty |-> <<5, 7>>,
      c_error |-> <<>>,
      d_text |-> <<12>>, d_tool |-> <<30>>, d_toolB |-> <<30>>, d_tc_stop |-> <<30>>,
      d_length |-> <<12>>, d_nomsg |-> <<>>, d_error |-> <<>>,
      g_text |-> <<12>>, g_call |-> <<30>>, g_callB |-> <<30>>, g_noname |-> <<30>>,
      g_safety |-> <<12>>, g_blank |-> <<>>, g_error |-> <<>> ]

\* the handler's counters: last is _lastTotalTokens of the base class, total
\* the _totalTokens member the Gemini handler declares for itself
Tokens(last, total) == [last |-> last, total |-> total]

NoTokens == Tokens(0, 0)

\* resetState(): the base class knows _lastTotalTokens only
resetState(t) == [t EXCEPT !.last = 0]

\* the counters after a parser has run on body p with usage u; t holds them
\* before it
Claude_parseToolCallsTokens(p, u, t) ==
    IF p.json /\ ~p.error /\ u # <<>>
    THEN [resetState(t) EXCEPT !.last = u[1] + u[2]]
    ELSE resetState(t)

\* the usage is read inside `if (contentArray.size() > 0)`
Claude_parseTokens(p, u, t) ==
    IF p.json /\ ~p.error /\ p.hasContent /\ Len(p.content) > 0 /\ u # <<>>
    THEN [resetState(t) EXCEPT !.last = u[1] + u[2]]
    ELSE resetState(t)

\* _lastTotalTokens is written, _totalTokens is not
Gemini_parseToolCallsTokens(p, u, t) ==
    IF p.json /\ ~p.error /\ u # <<>>
    THEN [resetState(t) EXCEPT !.last = u[1]]
    ELSE resetState(t)

\* _lastTotalTokens is written after the error check, _totalTokens where the
\* first part's text is returned
Gemini_parseTokens(p, u, t) ==
    LET t1 == IF p.json /\ ~p.error /\ u # <<>>
              THEN [resetState(t) EXCEPT !.last = u[1]]
              ELSE resetState(t)
        textReturned ==
            /\ p.json /\ ~p.error /\ p.hasCandidates
            /\ p.finish \in {ABSENT, "STOP", "MAX_TOKENS"}
            /\ p.hasContent /\ p.hasParts /\ Len(p.parts) > 0
            /\ IsText(p.parts[1])
    IN  IF textReturned /\ u # <<>> THEN [t1 EXCEPT !.total = u[1]] ELSE t1

\* both revisions, both parsers
DeepSeek_parseTokens(p, u, t) ==
    IF p.json /\ ~p.error /\ u # <<>>
    THEN [resetState(t) EXCEPT !.last = u[1]]
    ELSE resetState(t)

parseToolCallsTokens(h, body, t) ==
    CASE h = "claude"   -> Claude_parseToolCallsTokens(ClaudeBodies[body], Usage[body], t)
      [] h = "gemini"   -> Gemini_parseToolCallsTokens(GeminiBodies[body], Usage[body], t)
      [] h = "deepseek" -> DeepSeek_parseTokens(DeepSeekBodies[body], Usage[body], t)

parseTokens(h, body, t) ==
    CASE h = "claude"   -> Claude_parseTokens(ClaudeBodies[body], Usage[body], t)
      [] h = "gemini"   -> Gemini_parseTokens(GeminiBodies[body], Usage[body], t)
      [] h = "deepseek" -> DeepSeek_parseTokens(DeepSeekBodies[body], Usage[body], t)

\* handler->getTotalTokens(): the Gemini handler overrides it to return its
\* own member; ESP32_AI_Connect::getTotalTokens returns 0 without a handler
getTotalTokens(h, t) ==
    IF h = "none" THEN 0
    ELSE IF h = "gemini" THEN t.total
    ELSE t.last

\* ------------------------------------------------ tool results (tcReply)
\* toolResultsJson, described by what the validation reads from it
ResultElem(id, hasId, hasFunction, hasName, hasOutput) ==
    [id |-> id, hasId |-> hasId, hasFunction |-> hasFunction, hasName |-> hasName,
     hasOutput |-> hasOutput]

GoodResult(id) == ResultElem(id, TRUE, TRUE, TRUE, TRUE)

ToolResults(len, json, isArray, elems) ==
    [len |-> len, json |-> json, isArray |-> isArray, elems |-> elems]

ResultsTable ==
    [ r_ok      |-> ToolResults(90, TRUE, TRUE, <<GoodResult("call_1")>>),
      r_noid    |-> ToolResults(160, TRUE, TRUE,
                      <<GoodResult("call_1"), ResultElem(ABSENT, FALSE, TRUE, TRUE, TRUE)>>),
      r_nofunc  |-> ToolResults(40, TRUE, TRUE, <<ResultElem("call_1", TRUE, FALSE, FALSE, FALSE)>>),
      r_noname  |-> ToolResults(70, TRUE, TRUE, <<ResultElem("call_1", TRUE, TRUE, FALSE, TRUE)>>),
      r_noout   |-> ToolResults(70, TRUE, TRUE, <<ResultElem("call_1", TRUE, TRUE, TRUE, FALSE)>>),
      r_empty   |-> ToolResults(2, TRUE, TRUE, <<>>),
      r_object  |-> ToolResults(30, TRUE, FALSE, <<>>),
      r_garbage |-> ToolResults(10, FALSE, FALSE, <<>>),
      r_huge    |-> ToolResults(1500, TRUE, TRUE, <<GoodResult("call_1")>>) ]

ResultIds == DOMAIN ResultsTable

\* ------------------------------------------------- the request document
\* _reqDoc, the JsonDocument every request body is built in.  It is null
\* (cleared, or left by a deserializeJson that failed), a JSON object or a
\* JSON array.  An object is described by the members the builders write
\* (a member that is not there: "" for a String, 0 for max_tokens, <<>> for
\* an array) and by the names of the members others left in it (other); an
\* array by its elements (items).  The members are named as Claude and
\* DeepSeek name them; Gemini's systemInstruction, generationConfig.
\* maxOutputTokens, contents and tool_config are system, maxTokens, messages
\* and toolChoice.  serializeJson writes the document out as it is: the
\* request body is described by the document it was serialized from.
Doc(kind, model, maxTokens, system, messages, tl, toolChoice, other, items) ==
    [kind |-> kind, model |-> model, maxTokens |-> maxTokens, system |-> system,
     messages |-> messages, tools |-> tl, toolChoice |-> toolChoice,
     other |-> other, items |-> items]

NullDoc == Doc("null", "", 0, "", <<>>, <<>>, "", {}, <<>>)

\* doc.clear()
clear(doc) == NullDoc

\* doc[member] = value, doc.createNestedArray(member): a null document
\* becomes an object, an object takes the member, an array is left as it is
\* (getOrAddMember finds no object to add to)
Set(doc, member, value) ==
    IF doc.kind = "array" THEN doc
    ELSE [doc EXCEPT !["kind"] = "object", ![member] = value]

\* the model name given to the constructor
ModelName == "model-x"

\* a message of the request: a role, a text, the tool calls of an assistant
\* turn and the results of a tool turn
Message(role, text, toolCalls, results) ==
    [role |-> role, text |-> text, calls |-> toolCalls, results |-> results]

UserMessage(text) == Message("user", text, <<>>, <<>>)

\* a tool result as the request carries it: the id it answers (ABSENT where
\* the vendor's shape has none)
ResultBlock(id) == [id |-> id]

\* the tool declarations of a request: one per stored definition
toolDeclarations(tl) == [i \in 1..Len(tl) |-> tl[i].nm]

\* deserializeJson(_reqDoc, tcTools[i]): the members of a tool definition
ToolDoc(t) ==
    IF ~t.json THEN NullDoc
    ELSE Doc("object", "", 0, "", <<>>, <<>>, "",
             (IF t.hasName THEN {"name"} ELSE {})
             \cup (IF t.hasParams THEN {"parameters"} ELSE {})
             \cup (IF t.hasType THEN {"type"} ELSE {})
             \cup (IF t.hasFunction THEN {"function"} ELSE {}),
             <<>>)

\* deserializeJson(_reqDoc, toolResultsJson)
ResultsDoc(r) ==
    IF ~r.json THEN NullDoc
    ELSE IF r.isArray THEN Doc("array", "", 0, "", <<>>, <<>>, "", {}, r.elems)
    ELSE Doc("object", "", 0, "", <<>>, <<>>, "", {"tool_call_id", "function"}, <<>>)

\* what a builder returns: ok is FALSE for the empty String; doc is the
\* document as the builder leaves it, and the body when ok
Built(ok, doc) == [ok |-> ok, doc |-> doc]

\* ----------------------------------------------- the request builders
\* the max_tokens Claude sends when none is configured
CLAUDE_DEFAULT_MAX_TOKENS == 1024

\* _chatCustomParams: the String setChatParameters stored, described by
\* whether it is empty and by the keys of the JSON object it holds (none when
\* it holds anything else)
CustomParams(empty, keys) == [empty |-> empty, keys |-> keys]

NoCustomParams == CustomParams(TRUE, {})

\* for (JsonPair param : paramsDoc.as<JsonObject>()) doc[param.key()] =
\* param.value(), but for the keys in skipped
mergeCustomParams(doc, customParams, skipped) ==
    LET ks == customParams.keys \ skipped
        d1 == IF "model" \in ks THEN Set(doc, "model", "custom-model") ELSE doc
        d2 == IF "messages" \in ks THEN Set(d1, "messages", <<UserMessage("custom message")>>) ELSE d1
        d3 == IF "system" \in ks THEN Set(d2, "system", "custom system") ELSE d2
        rest == ks \ {"model", "messages", "system"}
    IN  IF customParams.empty \/ rest = {} THEN d3
        ELSE Set(d3, "other", d3.other \cup rest)

\* `int _maxTokens = -1`: no limit configured
UNSET_MAX_TOKENS == -1

\* messages.createNestedObject() for the system role, where it is a message
systemMessages(systemMessage) ==
    IF systemMessage # "" THEN <<Message("system", systemMessage, <<>>, <<>>)>> ELSE <<>>

\* -- Claude
Claude_buildToolCallsRequestBody(tl, systemMessage, toolChoice, maxTokens, userMessage, doc) ==
    LET d1 == Set(clear(doc), "model", ModelName)
        d2 == Set(d1, "maxTokens",
                  IF maxTokens > 0 THEN maxTokens ELSE CLAUDE_DEFAULT_MAX_TOKENS)
        d3 == IF systemMessage # "" THEN Set(d2, "system", systemMessage) ELSE d2
        d4 == Set(d3, "tools", toolDeclarations(tl))
        d5 == Set(d4, "messages", <<UserMessage(userMessage)>>)
        d6 == IF toolChoice # "" THEN Set(d5, "toolChoice", toolChoice) ELSE d5
    IN  Built(TRUE, d6)

\* the tool_use blocks written for the stored tool calls; id and name go
\* through as<String>(), which gives "null" for a key the call lacks
Claude_toolUseBlocks(toolCalls) ==
    LET asString(v) == IF v = ABSENT THEN "null" ELSE v
    IN  [i \in 1..Len(toolCalls) |->
            Call(asString(toolCalls[i].id), "tool_use", asString(toolCalls[i].name),
                 toolCalls[i].args)]

\* a content array of the tool_use blocks alone
Claude_assistantContent_bare(toolCalls) == Claude_toolUseBlocks(toolCalls)

\* the content array of the assistant turn of a follow-up, for a stored
\* array in the library's format: a placeholder text block, then the
\* tool_use blocks
Claude_assistantContent(toolCalls) ==
    <<[type |-> "text", text |-> "I'll help you with that."]>>
    \o Claude_toolUseBlocks(toolCalls)

RECURSIVE Claude_toolResultBlocks(_)
\* the tool_result blocks: one per result that has a tool_call_id
Claude_toolResultBlocks(elems) ==
    IF elems = <<>> THEN <<>>
    ELSE IF Head(elems).hasId
         THEN <<ResultBlock(Head(elems).id)>> \o Claude_toolResultBlocks(Tail(elems))
         ELSE Claude_toolResultBlocks(Tail(elems))

\* a follow-up builder that writes into the document as it finds it
Claude_buildToolCallsFollowUpRequestBody_unclear(tl, systemMessage, toolChoice, lastUserMsg, lastAssistantToolCalls, toolResults, followUpMaxTokens, followUpToolChoice, doc) ==
    LET d1 == Set(doc, "model", ModelName)
        d2 == Set(d1, "maxTokens",
                  IF followUpMaxTokens > 0 THEN followUpMaxTokens
                  ELSE CLAUDE_DEFAULT_MAX_TOKENS)
        d3 == IF systemMessage # "" THEN Set(d2, "system", systemMessage) ELSE d2
        d4 == Set(d3, "tools", toolDeclarations(tl))
        d5 == Set(d4, "messages", <<UserMessage(lastUserMsg)>>)
        d6 == Set(d5, "messages",
                  << UserMessage(lastUserMsg),
                     Message("assistant", "",
                             Claude_assistantContent(lastAssistantToolCalls.calls), <<>>),
                     Message("user", "", <<>>,
                             Claude_toolResultBlocks(toolResults.elems)) >>)
        d7 == IF followUpToolChoice # "" THEN Set(d6, "toolChoice", followUpToolChoice)
              ELSE d6
    IN  IF ~parsesAsJson(lastAssistantToolCalls) \/ ~toolResults.json
        THEN Built(FALSE, d5)
        ELSE Built(TRUE, d7)

Claude_buildToolCallsFollowUpRequestBody(tl, systemMessage, toolChoice, lastUserMsg, lastAssistantToolCalls, toolResults, followUpMaxTokens, followUpToolChoice, doc) ==
    LET d1 == Set(clear(doc), "model", ModelName)
        d2 == Set(d1, "maxTokens",
                  IF followUpMaxTokens > 0 THEN followUpMaxTokens
                  ELSE CLAUDE_DEFAULT_MAX_TOKENS)
        d3 == IF systemMessage # "" THEN Set(d2, "system", systemMessage) ELSE d2
        d4 == Set(d3, "tools", toolDeclarations(tl))
        d5 == Set(d4, "messages", <<UserMessage(lastUserMsg)>>)
        d6 == Set(d5, "messages",
                  << UserMessage(lastUserMsg),
                     Message("assistant", "",
                             Claude_assistantContent(lastAssistantToolCalls.calls), <<>>),
                     Message("user", "", <<>>,
                             Claude_toolResultBlocks(toolResults.elems)) >>)
        d7 == IF followUpToolChoice # "" THEN Set(d6, "toolChoice", followUpToolChoice)
              ELSE d6
    IN  IF ~parsesAsJson(lastAssistantToolCalls) \/ ~toolResults.json
        THEN Built(FALSE, d5)
        ELSE Built(TRUE, d7)

\* buildRequestBody: the document is not cleared; model, max_tokens and
\* messages are written over what it holds
Claude_buildRequestBody(systemRole, maxTokens, userMessage, doc, customParams) ==
    LET d1 == Set(doc, "model", ModelName)
        dm == mergeCustomParams(d1, customParams, {"model", "messages", "system"})
        d2 == Set(dm, "maxTokens",
                  IF maxTokens > 0 THEN maxTokens ELSE CLAUDE_DEFAULT_MAX_TOKENS)
        d3 == IF systemRole # "" THEN Set(d2, "system", systemRole) ELSE d2
        d4 == Set(d3, "messages", <<UserMessage(userMessage)>>)
    IN  Built(TRUE, d4)

\* -- Gemini
\* a node of a parameter schema: its type name, its properties (pairs of a
\* key and a node) and, for an array, the node of its items (none or one)
Schema(type, properties, items) == [type |-> type, properties |-> properties, items |-> items]

\* the "parameters" member of the tool definitions, by the tool's name
ParametersOf(nm) ==
    IF nm = "set_light"
    THEN Schema("object",
                << <<"on", Schema("boolean", <<>>, <<>>)>>,
                   <<"zone", Schema("object",
                                    << <<"floor", Schema("integer", <<>>, <<>>)>> >>, <<>>)>>,
                   <<"scenes", Schema("array", <<>>, <<Schema("string", <<>>, <<>>)>>)>> >>,
                <<>>)
    ELSE Schema("object", << <<"city", Schema("string", <<>>, <<>>)>> >>, <<>>)

\* String::toUpperCase on the type names above
toUpperCase(type) ==
    CASE type = "object"  -> "OBJECT"
      [] type = "string"  -> "STRING"
      [] type = "boolean" -> "BOOLEAN"
      [] type = "integer" -> "INTEGER"
      [] type = "array"   -> "ARRAY"
      [] OTHER            -> type

\* geminiParams for parameters of type "object": the type is "OBJECT", each
\* property gets its type upper-cased (description and enum are copied, no
\* other member of the property is); other parameters are copied as they are
Gemini_convertParameters(parameters) ==
    IF parameters.type = "object"
    THEN Schema("OBJECT",
                [i \in 1..Len(parameters.properties) |->
                    <<parameters.properties[i][1],
                      Schema(toUpperCase(parameters.properties[i][2].type), <<>>, <<>>)>>],
                <<>>)
    ELSE parameters

\* functionDeclarations: a name and, unless the definition has no
\* parameters, the converted parameters
Gemini_functionDeclarations(tl) ==
    [i \in 1..Len(tl) |->
        LET wrapped   == tl[i].hasType /\ tl[i].hasFunction
            hasParams == IF wrapped THEN tl[i].fnHasParams ELSE tl[i].hasParams
        IN  [name |-> tl[i].nm,
             parameters |-> IF hasParams /\ ~tl[i].nullParams
                            THEN <<Gemini_convertParameters(ParametersOf(tl[i].nm))>>
                            ELSE <<>>]]

Gemini_buildToolCallsRequestBody(tl, systemMessage, toolChoice, maxTokens, userMessage, doc) ==
    LET d0 == clear(doc)
        d1 == IF systemMessage # "" THEN Set(d0, "system", systemMessage) ELSE d0
        d2 == IF maxTokens > 0 THEN Set(d1, "maxTokens", maxTokens) ELSE d1
        d3 == Set(d2, "messages", <<UserMessage(userMessage)>>)
        d4 == Set(d3, "tools", Gemini_functionDeclarations(tl))
        d5 == IF toolChoice # "" THEN Set(d4, "toolChoice", toolChoice) ELSE d4
    IN  Built(TRUE, d5)

RECURSIVE Gemini_functionCallParts(_)
\* the functionCall parts: one per stored call of type "function" with a
\* name and arguments; the part carries the name and the arguments only
Gemini_functionCallParts(toolCalls) ==
    IF toolCalls = <<>> THEN <<>>
    ELSE LET c == Head(toolCalls)
         IN  IF c.type = "function" /\ c.name # ABSENT /\ c.args # ABSENT
             THEN <<Call(ABSENT, ABSENT, c.name, c.args)>>
                  \o Gemini_functionCallParts(Tail(toolCalls))
             ELSE Gemini_functionCallParts(Tail(toolCalls))

RECURSIVE Gemini_functionResponses(_)
\* one user turn with a functionResponse part per result that has
\* function.name and function.output; the part carries no id
Gemini_functionResponses(elems) ==
    IF elems = <<>> THEN <<>>
    ELSE IF Head(elems).hasFunction /\ Head(elems).hasName /\ Head(elems).hasOutput
         THEN <<Message("user", "", <<>>, <<ResultBlock(ABSENT)>>)>>
              \o Gemini_functionResponses(Tail(elems))
         ELSE Gemini_functionResponses(Tail(elems))

Gemini_buildToolCallsFollowUpRequestBody(tl, systemMessage, toolChoice, lastUserMsg, lastAssistantToolCalls, toolResults, followUpMaxTokens, followUpToolChoice, doc) ==
    LET d0 == clear(doc)
        d1 == IF systemMessage # "" THEN Set(d0, "system", systemMessage) ELSE d0
        d2 == IF followUpMaxTokens > 0 THEN Set(d1, "maxTokens", followUpMaxTokens) ELSE d1
        assistant == IF parsesAsJson(lastAssistantToolCalls)
                     THEN <<Message("model", "",
                                    Gemini_functionCallParts(lastAssistantToolCalls.calls),
                                    <<>>)>>
                     ELSE <<>>
        results == IF toolResults.json /\ toolResults.isArray
                   THEN Gemini_functionResponses(toolResults.elems)
                   ELSE <<>>
        d3 == Set(d2, "messages", <<UserMessage(lastUserMsg)>> \o assistant \o results)
        d4 == Set(d3, "tools", Gemini_functionDeclarations(tl))
        d5 == IF followUpToolChoice # "" THEN Set(d4, "toolChoice", followUpToolChoice)
              ELSE IF toolChoice # "" THEN Set(d4, "toolChoice", toolChoice)
              ELSE d4
    IN  Built(TRUE, d5)

Gemini_buildRequestBody(systemRole, maxTokens, userMessage, doc) ==
    LET d0 == clear(doc)
        d1 == IF systemRole # "" THEN Set(d0, "system", systemRole) ELSE d0
        d2 == Set(d1, "messages", <<UserMessage(userMessage)>>)
        d3 == IF maxTokens > 0 THEN Set(d2, "maxTokens", maxTokens) ELSE d2
    IN  Built(TRUE, d3)

\* -- DeepSeek (both revisions build the first request alike)
DeepSeek_buildToolCallsRequestBody(tl, systemMessage, toolChoice, maxTokens, userMessage, doc) ==
    LET d1 == Set(clear(doc), "model", ModelName)
        d2 == IF maxTokens > 0 THEN Set(d1, "maxTokens", maxTokens) ELSE d1
        d3 == Set(d2, "messages",
                  systemMessages(systemMessage) \o <<UserMessage(userMessage)>>)
        d4 == IF toolChoice # "" THEN Set(d3, "toolChoice", toolChoice) ELSE d3
        d5 == Set(d4, "tools", toolDeclarations(tl))
    IN  Built(TRUE, d5)

\* one "tool" message per result, with its tool_call_id if it has one
DeepSeek_toolMessages(elems) ==
    [i \in 1..Len(elems) |->
        Message("tool", "", <<>>,
                <<ResultBlock(IF elems[i].hasId THEN elems[i].id ELSE ABSENT)>>)]

\* part_007: a stored turn or a results text that does not parse is left out
DeepSeek7_buildToolCallsFollowUpRequestBody(tl, systemMessage, toolChoice, lastUserMsg, lastAssistantToolCalls, toolResults, followUpMaxTokens, followUpToolChoice, doc) ==
    LET d1 == Set(clear(doc), "model", ModelName)
        d2 == IF followUpMaxTokens > 0 THEN Set(d1, "maxTokens", followUpMaxTokens) ELSE d1
        assistant == Message("assistant", "",
                             IF parsesAsJson(lastAssistantToolCalls)
                             THEN lastAssistantToolCalls.calls ELSE <<>>,
                             <<>>)
        results == IF toolResults.json /\ toolResults.isArray
                   THEN DeepSeek_toolMessages(toolResults.elems)
                   ELSE <<>>
        d3 == Set(d2, "messages",
                  systemMessages(systemMessage)
                  \o <<UserMessage(lastUserMsg), assistant>> \o results)
        d4 == IF followUpToolChoice # "" THEN Set(d3, "toolChoice", followUpToolChoice)
              ELSE d3
        d5 == Set(d4, "tools", toolDeclarations(tl))
    IN  Built(TRUE, d5)

\* part_008: returns "" when the stored turn or the results do not parse
DeepSeek8_buildToolCallsFollowUpRequestBody(tl, systemMessage, toolChoice, lastUserMsg, lastAssistantToolCalls, toolResults, followUpMaxTokens, followUpToolChoice, doc) ==
    LET d1 == Set(clear(doc), "model", ModelName)
        d2 == IF followUpMaxTokens > 0 THEN Set(d1, "maxTokens", followUpMaxTokens) ELSE d1
        opening == systemMessages(systemMessage) \o <<UserMessage(lastUserMsg)>>
        d3 == Set(d2, "messages", opening \o <<Message("assistant", "", <<>>, <<>>)>>)
        assistant == Message("assistant", "", lastAssistantToolCalls.calls, <<>>)
        d4 == Set(d2, "messages", opening \o <<assistant>>)
        d5 == Set(d2, "messages",
                  opening \o <<assistant>> \o DeepSeek_toolMessages(toolResults.elems))
        d6 == Set(d5, "tools", toolDeclarations(tl))
        d7 == IF followUpToolChoice # "" THEN Set(d6, "toolChoice", followUpToolChoice)
              ELSE d6
    IN  IF ~parsesAsJson(lastAssistantToolCalls) THEN Built(FALSE, d3)
        ELSE IF ~toolResults.json THEN Built(FALSE, d4)
        ELSE Built(TRUE, d7)

DeepSeek_buildRequestBody(systemRole, maxTokens, userMessage, doc) ==
    LET d1 == Set(clear(doc), "model", ModelName)
        d2 == Set(d1, "messages", systemMessages(systemRole) \o <<UserMessage(userMessage)>>)
        d3 == IF maxTokens > 0 THEN Set(d2, "maxTokens", maxTokens) ELSE d2
    IN  Built(TRUE, d3)

\* revision part_007 takes the custom parameters, after model and messages
DeepSeek7_buildRequestBody(systemRole, maxTokens, userMessage, doc, customParams) ==
    LET d1 == Set(clear(doc), "model", ModelName)
        d2 == Set(d1, "messages", systemMessages(systemRole) \o <<UserMessage(userMessage)>>)
        dm == mergeCustomParams(d2, customParams, {"model", "messages"})
        d3 == IF maxTokens > 0 THEN Set(dm, "maxTokens", maxTokens) ELSE dm
    IN  Built(TRUE, d3)

\* -- the handler's virtual methods
buildToolCallsRequestBody(h, tl, systemMessage, toolChoice, maxTokens, userMessage, doc) ==
    IF h = "claude"
    THEN Claude_buildToolCallsRequestBody(tl, systemMessage, toolChoice, maxTokens,
                                          userMessage, doc)
    ELSE IF h = "gemini"
    THEN Gemini_buildToolCallsRequestBody(tl, systemMessage, toolChoice, maxTokens,
                                          userMessage, doc)
    ELSE DeepSeek_buildToolCallsRequestBody(tl, systemMessage, toolChoice, maxTokens,
                                            userMessage, doc)

buildToolCallsFollowUpRequestBody(h, r, tl, systemMessage, toolChoice, lastUserMsg, lastAssistantToolCalls, toolResults, followUpMaxTokens, followUpToolChoice, doc) ==
    IF h = "claude"
    THEN Claude_buildToolCallsFollowUpRequestBody(tl, systemMessage, toolChoice,
            lastUserMsg, lastAssistantToolCalls, toolResults,
            followUpMaxTokens, followUpToolChoice, doc)
    ELSE IF h = "gemini"
    THEN Gemini_buildToolCallsFollowUpRequestBody(tl, systemMessage, toolChoice,
            lastUserMsg, lastAssistantToolCalls, toolResults,
            followUpMaxTokens, followUpToolChoice, doc)
    ELSE IF r = "part_007"
    THEN DeepSeek7_buildToolCallsFollowUpRequestBody(tl, systemMessage, toolChoice,
            lastUserMsg, lastAssistantToolCalls, toolResults,
            followUpMaxTokens, followUpToolChoice, doc)
    ELSE DeepSeek8_buildToolCallsFollowUpRequestBody(tl, systemMessage, toolChoice,
            lastUserMsg, lastAssistantToolCalls, toolResults,
            followUpMaxTokens, followUpToolChoice, doc)

buildRequestBody(h, rev, systemRole, maxTokens, userMessage, doc, customParams) ==
    IF h = "claude"
    THEN Claude_buildRequestBody(systemRole, maxTokens, userMessage, doc, customParams)
    ELSE IF h = "gemini" THEN Gemini_buildRequestBody(systemRole, maxTokens, userMessage, doc)
    ELSE IF rev = "part_007"
    THEN DeepSeek7_buildRequestBody(systemRole, maxTokens, userMessage, doc, customParams)
    ELSE DeepSeek_buildRequestBody(systemRole, maxTokens, userMessage, doc)

\* ------------------------------------------------------------------ state
VARIABLES
    rev,                        \* which DeepSeek revision is compiled in; it
                                \* shows (and is chosen) once a DeepSeek
                                \* handler is built, "unseen" until then
    handler,                    \* _platformHandler: "none" or the adapter
    hFinish,                    \* the handler's _lastFinishReason
    hTokens,                    \* the handler's _lastTotalTokens and _totalTokens
    lastError,                  \* _lastError
    tools,                      \* _tcToolsArray[0.._tcToolsArraySize-1]
    lastUserMessage,            \* _lastUserMessage
    lastAssistantToolCallsJson, \* _lastAssistantToolCallsJson
    lastMessageWasToolCalls,    \* _lastMessageWasToolCalls
    chatRawResponse, chatResponseCode,
    tcRawResponse, tcChatResponseCode, tcReplyResponseCode,
    reqDoc,                     \* _reqDoc
    chatConfig,                 \* _systemRole, _maxTokens, _chatCustomParams
    tcConfig,                   \* _tcSystemRole, _tcMaxToken, _tcToolChoice,
                                \* _tcFollowUpMaxToken, _tcFollowUpToolChoice
    \* the last call, as its caller saw it
    calls,                      \* how many calls the client has served
    op,                         \* the operation
    ret,                        \* the String it returned (bool: Txt("true"/"false"))
    stage                       \* the statement it returned from

conv == <<lastUserMessage, lastAssistantToolCallsJson, lastMessageWasToolCalls>>

raws == <<chatRawResponse, chatResponseCode, tcRawResponse, tcChatResponseCode,
          tcReplyResponseCode>>

call == <<calls, op, ret, stage>>

vars == <<rev, handler, hFinish, hTokens, lastError, tools, conv, raws, reqDoc, tcConfig,
          chatConfig, call>>

\* the sketch makes at most MaxCalls calls
MoreCalls == calls < MaxCalls

Returned(o, r, st) ==
    /\ calls' = calls + 1
    /\ op' = o
    /\ ret' = r
    /\ stage' = st

\* the handler begin() constructs for a platform identifier, "none" if the
\* identifier names no compiled-in platform
newHandler(platformIdentifier) ==
    LET platformStr == toLowerCase(platformIdentifier)
    IN  IF platformStr \in {"gemini", "deepseek", "claude"} THEN platformStr ELSE "none"

\* the revisions the build may turn out to hold once handler h is built
revealed(h, r) ==
    IF h = "deepseek" /\ r = "unseen" THEN DeepSeekRevisions ELSE {r}

\* the tool-call configuration and its defaults ("Reset configuration to
\* defaults" in tcChatReset)
TCConfig(systemRole, maxToken, toolChoice, followUpMaxToken, followUpToolChoice) ==
    [systemRole |-> systemRole, maxToken |-> maxToken, toolChoice |-> toolChoice,
     followUpMaxToken |-> followUpMaxToken, followUpToolChoice |-> followUpToolChoice]

DefaultTCConfig == TCConfig("", UNSET_MAX_TOKENS, "", UNSET_MAX_TOKENS, "")

\* the configuration of plain chat, as the member initializers leave it
ChatConfig(systemRole, maxTokens, customParams) ==
    [systemRole |-> systemRole, maxTokens |-> maxTokens, customParams |-> customParams]

DefaultChatConfig == ChatConfig("", UNSET_MAX_TOKENS, NoCustomParams)

\* the constructor runs begin(platformIdentifier, ...) on a fresh object
Init ==
    /\ \E p \in PlatformNames : handler = newHandler(p)
    /\ rev \in revealed(handler, "unseen")
    /\ hFinish = ""
    /\ hTokens = NoTokens
    /\ lastError = IF handler = "none" THEN "Platform is not supported or not enabled" ELSE ""
    /\ tools = <<>>
    /\ lastUserMessage = ""
    /\ lastAssistantToolCallsJson = EmptyStr
    /\ lastMessageWasToolCalls = FALSE
    /\ chatRawResponse = ""
    /\ chatResponseCode = 0
    /\ tcRawResponse = ""
    /\ tcChatResponseCode = 0
    /\ tcReplyResponseCode = 0
    /\ reqDoc = NullDoc
    /\ tcConfig = DefaultTCConfig
    /\ chatConfig = DefaultChatConfig
    /\ calls = 0
    /\ op = "begin"
    /\ ret = Txt(IF handler = "none" THEN "false" ELSE "true")
    /\ stage = "begin"

\* a begin that skips _cleanupHandler(): an unknown platform leaves the
\* adapter of an earlier begin in place
begin_keeping(platformIdentifier) ==
    /\ MoreCalls
    /\ handler' = IF newHandler(platformIdentifier) = "none" THEN handler
                  ELSE newHandler(platformIdentifier)
    /\ hFinish' = ""
    /\ hTokens' = NoTokens
    /\ rev' \in revealed(handler', rev)
    /\ lastError' = IF handler' = "none" THEN "Platform is not supported or not enabled" ELSE ""
    /\ UNCHANGED <<tools, conv, raws, reqDoc, tcConfig, chatConfig>>
    /\ Returned("begin", Txt(IF handler' = "none" THEN "false" ELSE "true"), "begin")

\* ------------------------------------------------------------------ begin
begin(platformIdentifier) ==
    /\ MoreCalls
    /\ handler' = newHandler(platformIdentifier)
    /\ hFinish' = ""
    /\ hTokens' = NoTokens
    /\ rev' \in revealed(handler', rev)
    /\ lastError' = IF handler' = "none" THEN "Platform is not supported or not enabled" ELSE ""
    /\ UNCHANGED <<tools, conv, raws, reqDoc, tcConfig, chatConfig>>
    /\ Returned("begin", Txt(IF handler' = "none" THEN "false" ELSE "true"), "begin")

\* ------------------------------------------------------------- setTCTools
RECURSIVE totalLength(_)
totalLength(tcTools) ==
    IF tcTools = <<>> THEN 0 ELSE Head(tcTools).len + totalLength(Tail(tcTools))

MAX_TOTAL_TC_LENGTH == AI_API_REQ_JSON_DOC_SIZE \div 2

\* validation step 2 on one definition: "" or the error
toolError(t) ==
    LET hasName == t.hasName \/ (t.hasType /\ t.hasFunction /\ t.fnHasName)
        hasParameters == IF t.hasName THEN t.hasParams
                         ELSE t.hasType /\ t.hasFunction /\ t.fnHasParams
    IN  IF ~t.json THEN "Invalid JSON in tool"
        ELSE IF ~hasName THEN "Missing 'name' field in tool"
        ELSE IF ~hasParameters THEN "Missing 'parameters' field in tool"
        ELSE ""

\* validation steps 1 and 2 on the whole array: "" or the first error
setTCToolsError(tcTools) ==
    IF totalLength(tcTools) > MAX_TOTAL_TC_LENGTH THEN "Tool calls definition too large"
    ELSE IF \E i \in 1..Len(tcTools) : toolError(tcTools[i]) # ""
         THEN toolError(tcTools[CHOOSE i \in 1..Len(tcTools) :
                          /\ toolError(tcTools[i]) # ""
                          /\ \A j \in 1..(i-1) : toolError(tcTools[j]) = ""])
    ELSE ""

\* _reqDoc after the call: validation step 2 parses each definition into it
\* and stops at the first it refuses; step 1 returns before it is touched
setTCToolsDoc(tcTools, doc) ==
    IF totalLength(tcTools) > MAX_TOTAL_TC_LENGTH \/ tcTools = <<>> THEN doc
    ELSE IF \E i \in 1..Len(tcTools) : toolError(tcTools[i]) # ""
         THEN ToolDoc(tcTools[CHOOSE i \in 1..Len(tcTools) :
                        /\ toolError(tcTools[i]) # ""
                        /\ \A j \in 1..(i-1) : toolError(tcTools[j]) = ""])
    ELSE ToolDoc(tcTools[Len(tcTools)])

\* a setTCTools that frees the old array before it validates the new one
setTCToolsStored_freedFirst(tcTools, old) ==
    IF setTCToolsError(tcTools) # "" THEN <<>> ELSE tcTools

\* the array stored after the call: replaced only once every definition passed
setTCToolsStored(tcTools, old) ==
    IF setTCToolsError(tcTools) # "" THEN old ELSE tcTools

\* a setTCTools that starts the tool conversation afresh
setTCTools_restarting(tcTools) ==
    /\ MoreCalls
    /\ lastError' = setTCToolsError(tcTools)
    /\ tools' = setTCToolsStored(tcTools, tools)
    /\ reqDoc' = setTCToolsDoc(tcTools, reqDoc)
    /\ lastUserMessage' = ""
    /\ lastAssistantToolCallsJson' = EmptyStr
    /\ lastMessageWasToolCalls' = FALSE
    /\ UNCHANGED <<rev, handler, hFinish, hTokens, raws, tcConfig, chatConfig>>
    /\ Returned("setTCTools",
                Txt(IF setTCToolsError(tcTools) = "" THEN "true" ELSE "false"),
                "setTCTools")

setTCTools(tcTools) ==
    /\ MoreCalls
    /\ lastError' = setTCToolsError(tcTools)
    /\ tools' = setTCToolsStored(tcTools, tools)
    /\ reqDoc' = setTCToolsDoc(tcTools, reqDoc)
    /\ UNCHANGED <<rev, handler, hFinish, hTokens, conv, raws, tcConfig, chatConfig>>
    /\ Returned("setTCTools",
                Txt(IF setTCToolsError(tcTools) = "" THEN "true" ELSE "false"),
                "setTCTools")

\* ------------------------------------------------------------ tcChatReset
\* a reset of the conversation tracking that leaves the configuration alone
tcChatReset_keeping ==
    /\ MoreCalls
    /\ lastUserMessage' = ""
    /\ lastAssistantToolCallsJson' = EmptyStr
    /\ lastMessageWasToolCalls' = FALSE
    /\ tcRawResponse' = ""
    /\ tcChatResponseCode' = 0
    /\ tcReplyResponseCode' = 0
    /\ UNCHANGED <<rev, handler, hFinish, hTokens, lastError, tools, chatRawResponse, chatResponseCode,
                   reqDoc, tcConfig, chatConfig>>
    /\ Returned("tcChatReset", EmptyStr, "tcChatReset")

tcChatReset ==
    /\ MoreCalls
    /\ lastUserMessage' = ""
    /\ lastAssistantToolCallsJson' = EmptyStr
    /\ lastMessageWasToolCalls' = FALSE
    /\ tcRawResponse' = ""
    /\ tcChatResponseCode' = 0
    /\ tcReplyResponseCode' = 0
    /\ tcConfig' = DefaultTCConfig
    /\ UNCHANGED <<rev, handler, hFinish, hTokens, lastError, tools, chatRawResponse, chatResponseCode,
                   reqDoc, chatConfig>>
    /\ Returned("tcChatReset", EmptyStr, "tcChatReset")

\* ------------------------------------------------- the HTTP round trip
\* buildToolCallsRequestBody / buildToolCallsFollowUpRequestBody call
\* resetState() in the Claude adapter only
buildResetsState(h) == h = "claude"

\* a round trip that passes the parser's result on as it is, adding no
\* message when the parser returns "" without one
Exchange_silent(n, pr, emptyMsg, finIn) ==
    IF ~n.connect
    THEN [stage |-> "connect_failed", code |-> 0, raw |-> "",
          err |-> "HTTP Client failed to begin connection", ret |-> EmptyStr,
          finish |-> finIn]
    ELSE IF n.code <= 0
    THEN [stage |-> "request_failed", code |-> n.code, raw |-> "",
          err |-> "HTTP Request Failed", ret |-> EmptyStr, finish |-> finIn]
    ELSE IF n.code # HTTP_CODE_OK
    THEN [stage |-> "http_error", code |-> n.code, raw |-> n.body,
          err |-> "HTTP Error", ret |-> EmptyStr, finish |-> finIn]
    ELSE [stage |-> "parsed", code |-> n.code, raw |-> n.body,
          err |-> pr.err, ret |-> pr.ret, finish |-> pr.finish]

\* the transport part shared by chat, tcChat and tcReply, from
\* _httpClient.begin to the parser: n is the transport's outcome, pr the
\* parser's result on the body (used on HTTP 200 only), emptyMsg the error
\* recorded when the parser returns "" without an error
Exchange(n, pr, emptyMsg, finIn) ==
    IF ~n.connect
    THEN [stage |-> "connect_failed", code |-> 0, raw |-> "",
          err |-> "HTTP Client failed to begin connection", ret |-> EmptyStr,
          finish |-> finIn]
    ELSE IF n.code <= 0
    THEN [stage |-> "request_failed", code |-> n.code, raw |-> "",
          err |-> "HTTP Request Failed", ret |-> EmptyStr, finish |-> finIn]
    ELSE IF n.code # HTTP_CODE_OK
    THEN [stage |-> "http_error", code |-> n.code, raw |-> n.body,
          err |-> "HTTP Error", ret |-> EmptyStr, finish |-> finIn]
    ELSE [stage |-> "parsed", code |-> n.code, raw |-> n.body,
          err |-> IF isEmpty(pr.ret) /\ pr.err = "" THEN emptyMsg ELSE pr.err,
          ret |-> pr.ret, finish |-> pr.finish]

\* a tracking that adds the tool calls of a round to those of the rounds before
trackFinishReason_accumulating(responseContent, parseErr, finishReason, cur) ==
    IF isEmpty(responseContent) /\ parseErr = "" THEN cur
    ELSE IF finishReason = "tool_calls" \/ finishReason = "tool_use"
         THEN [awaiting |-> TRUE,
               latc |-> IF responseContent.kind = "array"
                        THEN Arr(cur.latc.calls \o responseContent.calls)
                        ELSE responseContent]
         ELSE [awaiting |-> FALSE, latc |-> cur.latc]

\* "Track finish reason for potential follow-up": the tracking state after a
\* parsed response, [awaiting, latc]; cur is the tracking state before it
trackFinishReason(responseContent, parseErr, finishReason, cur) ==
    IF isEmpty(responseContent) /\ parseErr = "" THEN cur
    ELSE IF finishReason = "tool_calls" \/ finishReason = "tool_use"
         THEN [awaiting |-> TRUE, latc |-> responseContent]
         ELSE [awaiting |-> FALSE, latc |-> cur.latc]

\* a tracking block that forgets the pending tool calls when the exchange fails
trackAfterExchange_forgetting(stageX, pr, cur) ==
    IF stageX = "parsed" THEN trackFinishReason(pr.ret, pr.err, pr.finish, cur)
    ELSE [awaiting |-> FALSE, latc |-> EmptyStr]

\* the tracking block sits inside `if (httpCode == HTTP_CODE_OK)`: any other
\* outcome of the exchange leaves the tracking state as it is
trackAfterExchange(stageX, pr, cur) ==
    IF stageX = "parsed" THEN trackFinishReason(pr.ret, pr.err, pr.finish, cur) ELSE cur

\* a call that returns "" before any request, leaving all but the error alone
Rejected(o, err, st) ==
    /\ lastError' = err
    /\ UNCHANGED <<rev, handler, hFinish, hTokens, tools, conv, chatRawResponse, chatResponseCode,
                   tcConfig, chatConfig>>
    /\ Returned(o, EmptyStr, st)

\* a first statement that leaves _lastError as the previous call left it
clearedError_kept(e) == e

\* `_lastError = ""`, the first statement of chat, tcChat and tcReply
clearedError(e) == ""

\* ------------------------------------------------------------------ tcChat
\* what tcChat has checked before it touches the conversation: "" or the error
tcChatPrecondition(h, tl) ==
    IF h = "none" THEN "Platform handler not initialized"
    ELSE IF tl = <<>> THEN "Tool calls not set up"
    ELSE ""

tcChat(tcUserMessage, n) ==
    LET pErr == tcChatPrecondition(handler, tools)
        fin0 == IF buildResetsState(handler) THEN "" ELSE hFinish
        tok0 == IF buildResetsState(handler) THEN resetState(hTokens) ELSE hTokens
        pr   == parseToolCallsResponseBody(handler, rev, n.body, clearedError(lastError))
        x    == Exchange(n, pr, "Handler failed to parse tool calls response.", fin0)
        \* "Reset conversation tracking for new chat", ahead of the request
        trk  == trackAfterExchange(x.stage, pr, [awaiting |-> FALSE, latc |-> EmptyStr])
        b    == buildToolCallsRequestBody(handler, tools, tcConfig.systemRole,
                                          tcConfig.toolChoice, tcConfig.maxToken,
                                          tcUserMessage, reqDoc)
    IN  /\ MoreCalls
        /\ tcRawResponse' = IF pErr = "" THEN x.raw ELSE ""
        /\ tcChatResponseCode' = IF pErr = "" THEN x.code ELSE 0
        /\ reqDoc' = IF pErr = "" THEN b.doc ELSE reqDoc
        /\ UNCHANGED tcReplyResponseCode
        /\ IF pErr # ""
           THEN Rejected("tcChat", pErr,
                         IF handler = "none" THEN "no_handler" ELSE "no_tools")
           ELSE /\ lastUserMessage' = tcUserMessage
                /\ lastAssistantToolCallsJson' = trk.latc
                /\ lastMessageWasToolCalls' = trk.awaiting
                /\ hFinish' = x.finish
                /\ hTokens' = IF x.stage = "parsed"
                              THEN parseToolCallsTokens(handler, n.body, tok0)
                              ELSE tok0
                /\ lastError' = x.err
                /\ UNCHANGED <<rev, handler, tools, chatRawResponse, chatResponseCode,
                               tcConfig, chatConfig>>
                /\ Returned("tcChat", x.ret, x.stage)

\* ----------------------------------------------------------------- tcReply
\* the checks of tcReply without the one on _lastMessageWasToolCalls
tcReplyPrecondition_anyState(h, tl, awaiting) ==
    IF h = "none" THEN "Platform handler not initialized"
    ELSE IF tl = <<>> THEN "Tool calls not set up"
    ELSE ""

\* what tcReply checks before it looks at the results: "" or the error
tcReplyPrecondition(h, tl, awaiting) ==
    IF h = "none" THEN "Platform handler not initialized"
    ELSE IF tl = <<>> THEN "Tool calls not set up"
    ELSE IF ~awaiting THEN "No tool calls to reply to"
    ELSE ""

\* an element check that does not ask for tool_call_id
resultError_noId(e) ==
    IF ~e.hasFunction THEN "Each tool result must have a 'function' field."
    ELSE IF ~e.hasName THEN "Each tool result function must have a 'name' field."
    ELSE IF ~e.hasOutput THEN "Each tool result function must have an 'output' field."
    ELSE ""

\* the check of one element of the results array: "" or the error
resultError(e) ==
    IF ~e.hasId THEN "Each tool result must have a 'tool_call_id' field."
    ELSE IF ~e.hasFunction THEN "Each tool result must have a 'function' field."
    ELSE IF ~e.hasName THEN "Each tool result function must have a 'name' field."
    ELSE IF ~e.hasOutput THEN "Each tool result function must have an 'output' field."
    ELSE ""

\* "Validate toolResultsJson": "" or the first error
validateToolResults(r) ==
    IF r.len > AI_API_REQ_JSON_DOC_SIZE \div 2 THEN "Tool results JSON too large"
    ELSE IF ~r.json THEN "Invalid JSON in tool results"
    ELSE IF ~r.isArray THEN "Tool results must be a JSON array."
    ELSE IF \E i \in 1..Len(r.elems) : resultError(r.elems[i]) # ""
         THEN resultError(r.elems[CHOOSE i \in 1..Len(r.elems) :
                            /\ resultError(r.elems[i]) # ""
                            /\ \A j \in 1..(i-1) : resultError(r.elems[j]) = ""])
    ELSE ""

validationStage(r) ==
    IF r.len > AI_API_REQ_JSON_DOC_SIZE \div 2 THEN "too_large"
    ELSE IF ~r.json THEN "bad_json"
    ELSE IF ~r.isArray THEN "not_array"
    ELSE "bad_element"

\* the follow-up body tcReply builds for validated results r: the validation
\* has parsed them into _reqDoc, which the builder is handed
followUpRequest(r) ==
    buildToolCallsFollowUpRequestBody(handler, rev, tools,
        tcConfig.systemRole, tcConfig.toolChoice,
        lastUserMessage, lastAssistantToolCallsJson, r,
        tcConfig.followUpMaxToken, tcConfig.followUpToolChoice, ResultsDoc(r))

tcReply(toolResultsJson, n) ==
    LET r    == ResultsTable[toolResultsJson]
        pErr == tcReplyPrecondition(handler, tools, lastMessageWasToolCalls)
        vErr == validateToolResults(r)
        fin0 == IF buildResetsState(handler) THEN "" ELSE hFinish
        tok0 == IF buildResetsState(handler) THEN resetState(hTokens) ELSE hTokens
        pr   == parseToolCallsResponseBody(handler, rev, n.body, clearedError(lastError))
        x    == Exchange(n, pr, "Handler failed to parse tool calls follow-up response.", fin0)
        cur  == [awaiting |-> lastMessageWasToolCalls, latc |-> lastAssistantToolCallsJson]
        trk  == trackAfterExchange(x.stage, pr, cur)
        b    == followUpRequest(r)
        sent == pErr = "" /\ vErr = "" /\ b.ok
    IN  /\ MoreCalls
        /\ tcRawResponse' = IF sent THEN x.raw ELSE ""
        /\ tcReplyResponseCode' = IF sent THEN x.code ELSE 0
        /\ reqDoc' = IF pErr # "" \/ validationStage(r) = "too_large" THEN reqDoc
                     ELSE IF vErr # "" THEN ResultsDoc(r)
                     ELSE b.doc
        /\ UNCHANGED tcChatResponseCode
        /\ IF pErr # ""
           THEN Rejected("tcReply", pErr,
                         IF handler = "none" THEN "no_handler"
                         ELSE IF tools = <<>> THEN "no_tools" ELSE "not_awaiting")
           ELSE IF vErr # ""
           THEN Rejected("tcReply", vErr, validationStage(r))
           ELSE IF ~sent
           THEN /\ lastError' = "Failed to build tool calls follow-up request body."
                /\ hFinish' = fin0
                /\ hTokens' = tok0
                /\ UNCHANGED <<rev, handler, tools, conv, chatRawResponse, chatResponseCode,
                               tcConfig, chatConfig>>
                /\ Returned("tcReply", EmptyStr, "build_failed")
           ELSE /\ lastUserMessage' = lastUserMessage
                /\ lastAssistantToolCallsJson' = trk.latc
                /\ lastMessageWasToolCalls' = trk.awaiting
                /\ hFinish' = x.finish
                /\ hTokens' = IF x.stage = "parsed"
                              THEN parseToolCallsTokens(handler, n.body, tok0)
                              ELSE tok0
                /\ lastError' = x.err
                /\ UNCHANGED <<rev, handler, tools, chatRawResponse, chatResponseCode,
                               tcConfig, chatConfig>>
                /\ Returned("tcReply", x.ret, x.stage)

\* ------------------------------------------------ tool-call configuration
\* a setter: the configuration changes, nothing else does
Configured(o, c) ==
    /\ MoreCalls
    /\ tcConfig' = c
    /\ UNCHANGED <<rev, handler, hFinish, hTokens, lastError, tools, conv, raws, reqDoc,
                   chatConfig>>
    /\ Returned(o, EmptyStr, o)

setTCChatSystemRole(systemRole) ==
    Configured("setTCChatSystemRole", [tcConfig EXCEPT !.systemRole = systemRole])

setTCChatMaxTokens(maxTokens) ==
    Configured("setTCChatMaxTokens",
               IF maxTokens > 0 THEN [tcConfig EXCEPT !.maxToken = maxTokens] ELSE tcConfig)

setTCChatToolChoice(toolChoice) ==
    Configured("setTCChatToolChoice", [tcConfig EXCEPT !.toolChoice = toolChoice])

setTCReplyMaxTokens(maxTokens) ==
    Configured("setTCReplyMaxTokens",
               IF maxTokens > 0 THEN [tcConfig EXCEPT !.followUpMaxToken = maxTokens]
               ELSE tcConfig)

setTCReplyToolChoice(toolChoice) ==
    Configured("setTCReplyToolChoice", [tcConfig EXCEPT !.followUpToolChoice = toolChoice])

\* ----------------------------------------------------- chat configuration
\* a setter of plain chat: the chat configuration changes, nothing else does
ChatConfigured(o, c) ==
    /\ MoreCalls
    /\ chatConfig' = c
    /\ UNCHANGED <<rev, handler, hFinish, hTokens, lastError, tools, conv, raws, reqDoc,
                   tcConfig>>
    /\ Returned(o, EmptyStr, o)

setChatSystemRole(systemRole) ==
    ChatConfigured("setChatSystemRole", [chatConfig EXCEPT !.systemRole = systemRole])

\* max(1, maxTokens)
setChatMaxTokens(maxTokens) ==
    ChatConfigured("setChatMaxTokens",
                   [chatConfig EXCEPT !.maxTokens = IF maxTokens > 1 THEN maxTokens ELSE 1])

\* the strings given to setChatParameters: the empty string, one that is
\* not JSON, an object of sampling parameters, and an object that also
\* names the fields the adapters write themselves
ChatParameters ==
    [p_empty   |-> [empty |-> TRUE, valid |-> TRUE, keys |-> {}],
     p_bad     |-> [empty |-> FALSE, valid |-> FALSE, keys |-> {}],
     p_top_p   |-> [empty |-> FALSE, valid |-> TRUE, keys |-> {"top_p"}],
     p_managed |-> [empty |-> FALSE, valid |-> TRUE,
                    keys |-> {"model", "messages", "system", "stream", "top_p"}]]

setChatParameters(p) ==
    LET userParameterJsonStr == ChatParameters[p]
        rejected == ~userParameterJsonStr.empty /\ ~userParameterJsonStr.valid
    IN  /\ MoreCalls
        /\ chatConfig' = IF userParameterJsonStr.empty
                         THEN [chatConfig EXCEPT !.customParams = NoCustomParams]
                         ELSE IF rejected THEN chatConfig
                         ELSE [chatConfig EXCEPT
                                 !.customParams = CustomParams(FALSE, userParameterJsonStr.keys)]
        /\ lastError' = IF rejected THEN "Invalid JSON in custom parameters" ELSE lastError
        /\ UNCHANGED <<rev, handler, hFinish, hTokens, tools, conv, raws, reqDoc, tcConfig>>
        /\ Returned("setChatParameters", Txt(IF rejected THEN "false" ELSE "true"),
                    "setChatParameters")

\* -------------------------------------------------------------------- chat
\* a chat that records its message as the opening of a tool conversation
chat_tracking(userMessage, n) ==
    /\ MoreCalls
    /\ lastUserMessage' = userMessage
    /\ lastAssistantToolCallsJson' = EmptyStr
    /\ lastMessageWasToolCalls' = FALSE
    /\ lastError' = "Platform handler not initialized"
    /\ UNCHANGED <<rev, handler, hFinish, hTokens, tools, raws, reqDoc, tcConfig, chatConfig>>
    /\ Returned("chat", EmptyStr, "no_handler")

chat(userMessage, n) ==
    LET pr == parseResponseBody(handler, n.body, clearedError(lastError))
        x  == Exchange(n, pr, "Handler failed to parse response or returned empty content.",
                       hFinish)
        b  == buildRequestBody(handler, rev, chatConfig.systemRole, chatConfig.maxTokens,
                               userMessage, reqDoc, chatConfig.customParams)
    IN  /\ MoreCalls
        /\ UNCHANGED <<tcRawResponse, tcChatResponseCode, tcReplyResponseCode, tcConfig, chatConfig>>
        /\ reqDoc' = IF handler = "none" THEN reqDoc ELSE b.doc
        /\ IF handler = "none"
           THEN /\ lastError' = "Platform handler not initialized"
                /\ chatRawResponse' = ""
                /\ chatResponseCode' = 0
                /\ UNCHANGED <<rev, handler, hFinish, hTokens, tools, conv>>
                /\ Returned("chat", EmptyStr, "no_handler")
           ELSE /\ lastError' = x.err
                /\ chatRawResponse' = x.raw
                /\ chatResponseCode' = x.code
                /\ hFinish' = x.finish
                /\ hTokens' = IF x.stage = "parsed"
                              THEN parseTokens(handler, n.body, hTokens)
                              ELSE hTokens
                /\ UNCHANGED <<rev, handler, tools, conv>>
                /\ Returned("chat", x.ret, x.stage)

\* ------------------------------------------------------------ the program
\* the transport's outcomes for a call; a call that returns before
\* _httpClient.begin meets none of them, and one stands for all
Transport(reaches, bodies) ==
    IF reaches THEN NetOutcomes(bodies) ELSE {[connect |-> FALSE, code |-> 0, body |-> ""]}

Next ==
    \/ \E p \in PlatformNames : begin(p)
    \/ \E t \in ToolArrays : setTCTools(t)
    \/ tcChatReset
    \/ \E m \in Messages :
          \E n \in Transport(tcChatPrecondition(handler, tools) = "", BodyIds(handler)) :
             tcChat(m, n)
    \/ \E r \in ResultIds :
          \E n \in Transport(/\ tcReplyPrecondition(handler, tools, lastMessageWasToolCalls) = ""
                             /\ validateToolResults(ResultsTable[r]) = ""
                             /\ followUpRequest(ResultsTable[r]).ok,
                             ReplyBodyIds(handler)) :
             tcReply(r, n)
    \/ \E m \in ChatMessages : \E n \in Transport(handler # "none", ChatBodyIds(handler)) : chat(m, n)

Spec == Init /\ [][Next]_vars

\* the tool registry on its own: the calls that touch it, with more arrays
NextRegistry ==
    \/ \E p \in PlatformNames : begin(p)
    \/ \E t \in RegistryToolArrays : setTCTools(t)
    \/ tcChatReset

SpecRegistry == Init /\ [][NextRegistry]_vars

\* the client with its tool-call configuration set and reset: the setters,
\* one tool array, one message, one results array, and a transport that is
\* refused, answers 500 or answers 200 with a tool call or a text
ConfiguredBodyIds(h) ==
    CASE h = "claude"   -> {"c_tool", "c_text"}
      [] h = "gemini"   -> {"g_call", "g_text"}
      [] h = "deepseek" -> {"d_tool", "d_text"}
      [] OTHER          -> {}

ConfiguredTransport(reaches, bodies) ==
    IF reaches
    THEN {n \in NetOutcomes(bodies) : n.code \in {500, HTTP_CODE_OK}}
    ELSE {[connect |-> FALSE, code |-> 0, body |-> ""]}

SystemRoles == {"be brief"}

MaxTokenValues == {0, 300}

ToolChoices == {"auto"}

NextConfigured ==
    \/ \E systemRole \in SystemRoles : setTCChatSystemRole(systemRole)
    \/ \E maxTokens \in MaxTokenValues : setTCChatMaxTokens(maxTokens)
    \/ \E toolChoice \in ToolChoices : setTCChatToolChoice(toolChoice)
    \/ \E maxTokens \in MaxTokenValues : setTCReplyMaxTokens(maxTokens)
    \/ \E toolChoice \in ToolChoices : setTCReplyToolChoice(toolChoice)
    \/ \E maxTokens \in MaxTokenValues : setChatMaxTokens(maxTokens)
    \/ setTCTools(<<T_weather, T_light>>)
    \/ tcChatReset
    \/ \E n \in ConfiguredTransport(tcChatPrecondition(handler, tools) = "",
                                     ConfiguredBodyIds(handler)) :
          tcChat("m1", n)
    \/ \E n \in ConfiguredTransport(
                  /\ tcReplyPrecondition(handler, tools, lastMessageWasToolCalls) = ""
                  /\ followUpRequest(ResultsTable["r_ok"]).ok,
                  ConfiguredBodyIds(handler)) :
          tcReply("r_ok", n)

SpecConfigured == Init /\ [][NextConfigured]_vars

\* the client configured for plain chat and chatting, between tool-call
\* requests that use the same request document
ChatResultIds == {"r_ok", "r_noid"}

NextChat ==
    \/ \E systemRole \in SystemRoles : setChatSystemRole(systemRole)
    \/ \E maxTokens \in MaxTokenValues : setChatMaxTokens(maxTokens)
    \/ \E p \in DOMAIN ChatParameters : setChatParameters(p)
    \/ setTCTools(<<T_weather>>)
    \/ \E n \in ConfiguredTransport(tcChatPrecondition(handler, tools) = "",
                                     ConfiguredBodyIds(handler)) :
          tcChat("m1", n)
    \/ \E r \in ChatResultIds :
          \E n \in ConfiguredTransport(
                    /\ tcReplyPrecondition(handler, tools, lastMessageWasToolCalls) = ""
                    /\ validateToolResults(ResultsTable[r]) = ""
                    /\ followUpRequest(ResultsTable[r]).ok,
                    ConfiguredBodyIds(handler)) :
             tcReply(r, n)
    \/ \E n \in ConfiguredTransport(handler # "none", ChatBodyIds(handler)) : chat("hello", n)

SpecChat == Init /\ [][NextChat]_vars

\* a tool exchange of several rounds: tcChat is answered with the first
\* tool call or with text, each tcReply with text or with further tool calls
NextRounds ==
    \/ setTCTools(<<T_weather, T_light>>)
    \/ \E m \in Messages :
          \E n \in ConfiguredTransport(tcChatPrecondition(handler, tools) = "",
                                       ConfiguredBodyIds(handler)) :
             tcChat(m, n)
    \/ \E r \in ChatResultIds :
          \E n \in ConfiguredTransport(
                    /\ tcReplyPrecondition(handler, tools, lastMessageWasToolCalls) = ""
                    /\ validateToolResults(ResultsTable[r]) = ""
                    /\ followUpRequest(ResultsTable[r]).ok,
                    ReplyBodyIds(handler)) :
             tcReply(r, n)

SpecRounds == Init /\ [][NextRounds]_vars

\* ------------------------------------------------------------- properties
\* a step is a call of operation o
Did(o) == calls' = calls + 1 /\ op' = o

\* return statements that precede _httpClient.begin
BeforeRequest ==
    {"no_handler", "no_tools", "not_awaiting", "too_large", "bad_json", "not_array",
     "bad_element", "build_failed"}

\* return statements of a failed transport: no connection, a library error
\* (timeout among them) in place of a status, a status other than 200
TransportFailed == {"connect_failed", "request_failed", "http_error"}

\* a String holding a serialized tool-call array of at least one call
IsToolCallArray(s) == s.kind = "array" /\ Len(s.calls) >= 1

\* C1: a tcReply made while _lastMessageWasToolCalls is false, whatever its
\* results argument, returns the empty string, leaves lastError non-empty and
\* returns ahead of the request: no response code and no raw response.
C1_ReplyWhileIdleIsRejected ==
    [][ (Did("tcReply") /\ ~lastMessageWasToolCalls)
        => /\ ret' = EmptyStr
           /\ lastError' # ""
           /\ stage' \in {"no_handler", "no_tools", "not_awaiting"}
           /\ tcRawResponse' = ""
           /\ tcReplyResponseCode' = 0 ]_vars

C1_Witness ==
    /\ op = "tcReply"
    /\ stage = "not_awaiting"
    /\ ret = EmptyStr
    /\ lastError = "No tool calls to reply to"
    /\ ~lastMessageWasToolCalls

\* C2: _lastMessageWasToolCalls goes from true to false only in a tcChatReset
\* or in a tcChat or tcReply that succeeded with plain text.  Stated here for
\* tcReply: a tcReply that fails (it returns the empty string and leaves an
\* error) never takes the state from awaiting to idle.
C2_FailedReplyStaysAwaiting ==
    [][ (Did("tcReply") /\ lastMessageWasToolCalls /\ ret' = EmptyStr /\ lastError' # "")
        => lastMessageWasToolCalls' ]_vars

C4_ReturnedToolCallsAreAwaited ==
    (op \in {"tcChat", "tcReply"} /\ IsToolCallArray(ret)) => lastMessageWasToolCalls

\* C5: whenever _lastMessageWasToolCalls is true, lastAssistantToolCallsJson
\* is a serialized tool-call array of at least one element; never empty,
\* plain text or another non-array.
C5_AwaitingHoldsToolCallArray ==
    lastMessageWasToolCalls => IsToolCallArray(lastAssistantToolCallsJson)

\* a results array with an element that lacks tool_call_id, function,
\* function.name or function.output
HasIncompleteElement(r) ==
    /\ r.json
    /\ r.isArray
    /\ \E i \in 1..Len(r.elems) :
          ~(r.elems[i].hasId /\ r.elems[i].hasFunction /\ r.elems[i].hasName
            /\ r.elems[i].hasOutput)

\* the step is tcReply(r, n) for the outcome n it has recorded: n's status in
\* the response code, n's body in the raw response (code 0 and no body when
\* no connection was made or none was tried)
tcReplyStep(r) ==
    \E n \in NetOutcomes(ReplyBodyIds(handler)) :
       /\ n.code = tcReplyResponseCode'
       /\ n.body = tcRawResponse'
       /\ tcReply(r, n)

\* C6: a tcReply made while awaiting, with a results array one element of
\* which lacks tool_call_id (or function, function.name, function.output),
\* returns the empty string, sets lastError, returns ahead of the request and
\* leaves lastUserMessage, lastAssistantToolCallsJson and
\* _lastMessageWasToolCalls as they were (still awaiting).
C6_IncompleteResultIsRejected ==
    [][ (Did("tcReply") /\ lastMessageWasToolCalls)
        => \A r \in ResultIds :
              ( /\ HasIncompleteElement(ResultsTable[r])
                /\ tcReplyStep(r) )
              => /\ ret' = EmptyStr
                 /\ lastError' # ""
                 /\ stage' \in BeforeRequest
                 /\ tcRawResponse' = ""
                 /\ tcReplyResponseCode' = 0
                 /\ UNCHANGED conv
                 /\ lastMessageWasToolCalls' ]_vars

C6_Witness ==
    /\ op = "tcReply"
    /\ stage = "bad_element"
    /\ lastError = "Each tool result must have a 'tool_call_id' field."
    /\ ret = EmptyStr
    /\ lastMessageWasToolCalls
    /\ IsToolCallArray(lastAssistantToolCallsJson)

C8_ReplyWithToolCallsStartsNextRound ==
    [][ Did("tcReply")
        => /\ lastUserMessage' = lastUserMessage
           /\ (lastError' = "" /\ IsToolCallArray(ret'))
              => /\ lastAssistantToolCallsJson' = ret'
                 /\ lastMessageWasToolCalls' ]_vars

\* C9: a chat, in any state and whether it succeeds or fails, leaves
\* lastUserMessage, lastAssistantToolCallsJson, _lastMessageWasToolCalls and
\* the stored tool definitions as they were.
C9_ChatKeepsToolConversation ==
    [][ Did("chat") => UNCHANGED <<conv, tools>> ]_vars

C9_Witness ==
    /\ op = "chat"
    /\ stage = "parsed"
    /\ ~isEmpty(ret)
    /\ lastMessageWasToolCalls
    /\ IsToolCallArray(lastAssistantToolCallsJson)
    /\ tools # <<>>

\* the raw response and the response code a call of o owns
OwnRaw(o) == IF o = "chat" THEN chatRawResponse ELSE tcRawResponse

OwnCode(o) ==
    CASE o = "chat"    -> chatResponseCode
      [] o = "tcChat"  -> tcChatResponseCode
      [] o = "tcReply" -> tcReplyResponseCode

\* the transport's outcome that is HTTP 200 with body b
Ok200(b) == [connect |-> TRUE, code |-> HTTP_CODE_OK, body |-> b]

\* the step is a call of o (a tcReply with results that pass validation)
\* that got outcome n from the transport
CalledWith(o, n) ==
    CASE o = "chat"    -> \E m \in ChatMessages : chat(m, n)
      [] o = "tcChat"  -> \E m \in Messages : m = lastUserMessage' /\ tcChat(m, n)
      [] o = "tcReply" -> \E r \in ResultIds :
                             /\ validateToolResults(ResultsTable[r]) = ""
                             /\ tcReply(r, n)

\* the adapter's parser, started on a clean error, accepts body b
BodyAccepted(o, b) ==
    LET pr == IF o = "chat" THEN parseResponseBody(handler, b, "")
              ELSE parseToolCallsResponseBody(handler, rev, b, "")
    IN  pr.err = "" /\ ~isEmpty(pr.ret)

\* C10: chat, tcChat and tcReply reset lastError, their raw response and
\* their response code ahead of every check: a call that returns at a check
\* leaves its raw response empty and its code 0, and a call that succeeds
\* (HTTP 200 with a body the adapter accepts) leaves lastError empty and its
\* raw response equal to the body it received, whatever failed before it.
C10_CallStartsFromCleanSlate ==
    [][ \A o \in {"chat", "tcChat", "tcReply"} :
          Did(o)
          => /\ stage' \in BeforeRequest
                => (OwnRaw(o)' = "" /\ OwnCode(o)' = 0 /\ lastError' # "")
             /\ stage' = "parsed"
                => \A b \in BodyIds(handler) :
                      \/ /\ lastError' = ""
                         /\ OwnRaw(o)' = b
                         /\ OwnCode(o)' = HTTP_CODE_OK
                      \/ ~(BodyAccepted(o, b) /\ CalledWith(o, Ok200(b))) ]_vars

\* a chat that succeeds right after a tcChat that failed with HTTP 500
C10_Witness ==
    /\ calls = 3
    /\ tools # <<>>
    /\ tcChatResponseCode = 500
    /\ op = "chat"
    /\ stage = "parsed"
    /\ ~isEmpty(ret)
    /\ lastError = ""
    /\ chatResponseCode = HTTP_CODE_OK
    /\ chatRawResponse \in ChatBodyIds(handler)

\* C11: after chat, tcChat or tcReply, a non-empty lastError comes with an
\* empty return value: no call returns response content together with a
\* populated error, whichever adapter is installed.
C11_ErrorMeansEmptyReturn ==
    (op \in {"chat", "tcChat", "tcReply"} /\ lastError # "") => isEmpty(ret)

\* C12: whenever chat, tcChat or tcReply returns the empty string, lastError
\* is non-empty after the call, on every path (no adapter, no tools, body
\* not built, no connection, request failed, status other than 200, vendor
\* error object, unparseable or content-less response).
C12_EmptyReturnMeansError ==
    (op \in {"chat", "tcChat", "tcReply"} /\ isEmpty(ret)) => lastError # ""

\* a tcChat answered with HTTP 200 and a body that holds no content and no
\* vendor error: the adapter returns "" without a message and the client
\* supplies one
C12_Witness ==
    /\ op = "tcChat"
    /\ stage = "parsed"
    /\ tcChatResponseCode = HTTP_CODE_OK
    /\ isEmpty(ret)
    /\ lastError = "Handler failed to parse tool calls response."

\* the vendor identifiers compiled in (USE_AI_API_* of the build modelled)
CompiledIn == {"gemini", "deepseek", "claude"}

\* C13: a begin whose platform name, lower-cased, is none of the compiled-in
\* identifiers returns false, sets lastError and leaves the client without
\* an adapter, whatever adapter it had; and while there is no adapter every
\* chat, tcChat and tcReply returns the empty string with the "handler not
\* initialized" error at the first check, with no response code and no raw
\* response (no request).
C13_UnknownPlatformLeavesNoAdapter ==
    [][ /\ \A p \in PlatformNames :
              (toLowerCase(p) \notin CompiledIn /\ begin(p))
              => /\ ret' = Txt("false")
                 /\ lastError' # ""
                 /\ handler' = "none"
        /\ \A o \in {"chat", "tcChat", "tcReply"} :
              (handler = "none" /\ Did(o))
              => /\ isEmpty(ret')
                 /\ lastError' = "Platform handler not initialized"
                 /\ stage' = "no_handler"
                 /\ OwnRaw(o)' = ""
                 /\ OwnCode(o)' = 0
                 /\ handler' = "none" ]_vars

\* a tcChat refused for want of an adapter, on a client whose earlier
\* adapter had answered a chat with HTTP 200 before begin("nope") removed it
C13_Witness ==
    /\ handler = "none"
    /\ chatResponseCode = HTTP_CODE_OK
    /\ chatRawResponse # ""
    /\ op = "tcChat"
    /\ stage = "no_handler"
    /\ isEmpty(ret)
    /\ lastError = "Platform handler not initialized"

\* C14: a tcReply made while awaiting with the empty array "[]" fails
\* validation: it returns the empty string, sets lastError and returns ahead
\* of the request, with no response code recorded.
C14_EmptyResultsAreRejected ==
    [][ (Did("tcReply") /\ lastMessageWasToolCalls /\ tcReplyStep("r_empty"))
        => /\ isEmpty(ret')
           /\ lastError' # ""
           /\ stage' \in BeforeRequest
           /\ tcReplyResponseCode' = 0 ]_vars

\* return statements that follow _httpClient.POST: the body has been sent
Posted == {"request_failed", "http_error", "parsed"}

\* the ids of the pending tool calls
PendingIds ==
    {lastAssistantToolCallsJson.calls[i].id : i \in 1..Len(lastAssistantToolCallsJson.calls)}

\* the ids the result blocks of a request body answer
SentResultIds(doc) ==
    UNION { {doc.messages[i].results[j].id : j \in 1..Len(doc.messages[i].results)} :
            i \in 1..Len(doc.messages) }

\* C15: every result a tcReply sends answers a pending tool call: the ids in
\* the body it posts are ids of calls in lastAssistantToolCallsJson (so a
\* results array with an id that matches no pending call goes no further
\* than validation).
C15_SentResultsAnswerPendingCalls ==
    [][ (Did("tcReply") /\ stage' \in Posted)
        => SentResultIds(reqDoc') \subseteq PendingIds ]_vars

\* C16: every tool definition in the registry has a non-empty name and a
\* non-null parameters object, in one of the two shapes (top-level
\* name/parameters, or function.name/function.parameters): a definition with
\* an empty name or a null parameters value is never stored.
C16_StoredToolsHaveNameAndParameters ==
    \A i \in 1..Len(tools) :
       /\ tools[i].hasName \/ (tools[i].hasType /\ tools[i].hasFunction /\ tools[i].fnHasName)
       /\ tools[i].nm # ""
       /\ IF tools[i].hasName THEN tools[i].hasParams ELSE tools[i].fnHasParams
       /\ ~tools[i].nullParams

\* documents the scratch document may hold when tcReply starts: nothing, what
\* it holds now, a parsed results array or object, a parsed tool definition,
\* an earlier request body
ScratchDocs ==
    {NullDoc, reqDoc}
    \cup {ResultsDoc(ResultsTable[r]) : r \in ResultIds}
    \cup {ToolDoc(T_weather)}
    \cup {Doc("object", "model-old", 7, "old system", <<UserMessage("old question")>>,
              <<"old_tool">>, "old choice", {"stream"}, <<>>)}

\* the follow-up body the handler builds from the client's state and results
\* r when the scratch document holds d
followUpRequestIn(r, d) ==
    buildToolCallsFollowUpRequestBody(handler, rev, tools,
        tcConfig.systemRole, tcConfig.toolChoice,
        lastUserMessage, lastAssistantToolCallsJson, r,
        tcConfig.followUpMaxToken, tcConfig.followUpToolChoice, d)

\* what the follow-up body is built from, the results argument apart
followUpInputs ==
    <<handler, rev, tools, tcConfig, lastUserMessage, lastAssistantToolCallsJson,
      lastMessageWasToolCalls>>

C18_TcChatCarriesEarlierExchange ==
    [][ (/\ op \in {"tcChat", "tcReply"} /\ stage = "parsed" /\ lastError = ""
         /\ lastUserMessage # ""
         /\ Did("tcChat") /\ stage' \in Posted)
        => LET msgs == reqDoc'.messages
           IN  /\ \E i \in 1..(Len(msgs) - 1) :
                     msgs[i].role = "user" /\ msgs[i].text = lastUserMessage
               /\ msgs[Len(msgs)] = UserMessage(lastUserMessage')
               /\ IsToolCallArray(lastAssistantToolCallsJson)
                  => \E i \in 1..(Len(msgs) - 1) : Len(msgs[i].calls) >= 1
      ]_vars

\* C19: tcChatReset, in any state, leaves the client idle (not awaiting tool
\* results, lastUserMessage and lastAssistantToolCallsJson empty), the
\* tool-call and follow-up configuration (system role, max tokens, tool
\* choice) at their unset defaults, and the registered tools and the handler
\* as they were.  A tcReply that follows it fails ahead of the request, and
\* with a handler and tools in place the failure is "No tool calls to reply
\* to"; a tcChat that follows it with a handler and tools in place is not
\* turned away, and what it posts is built from the defaults.
C19_ResetLeavesIdleDefaultsAndTools ==
    [][ /\ Did("tcChatReset")
           => /\ ~lastMessageWasToolCalls'
              /\ lastUserMessage' = ""
              /\ isEmpty(lastAssistantToolCallsJson')
              /\ tcConfig'.systemRole = "" /\ tcConfig'.toolChoice = ""
              /\ tcConfig'.maxToken = UNSET_MAX_TOKENS
              /\ tcConfig'.followUpToolChoice = ""
              /\ tcConfig'.followUpMaxToken = UNSET_MAX_TOKENS
              /\ tools' = tools
              /\ handler' = handler
        /\ (op = "tcChatReset" /\ Did("tcReply"))
           => /\ isEmpty(ret')
              /\ lastError' # ""
              /\ stage' \in {"no_handler", "no_tools", "not_awaiting"}
              /\ tcReplyResponseCode' = 0
              /\ (handler # "none" /\ tools # <<>>)
                 => lastError' = "No tool calls to reply to" /\ stage' = "not_awaiting"
        /\ (op = "tcChatReset" /\ Did("tcChat") /\ handler # "none" /\ tools # <<>>)
           => /\ stage' \notin BeforeRequest
              /\ reqDoc'.tools = IF handler = "gemini" THEN Gemini_functionDeclarations(tools)
                                 ELSE toolDeclarations(tools)
              /\ reqDoc'.messages = <<UserMessage(lastUserMessage')>>
              /\ reqDoc'.system = ""
              /\ reqDoc'.toolChoice = ""
              /\ reqDoc'.maxTokens = (IF handler = "claude" THEN CLAUDE_DEFAULT_MAX_TOKENS ELSE 0)
      ]_vars

\* a tcReply turned away as "not awaiting" although a tcChat had posted its
\* request: a reset came in between (only a reset empties lastUserMessage),
\* and the tools are still there
C19_Witness ==
    /\ op = "tcReply"
    /\ stage = "not_awaiting"
    /\ lastError = "No tool calls to reply to"
    /\ lastUserMessage = ""
    /\ tools # <<>>
    /\ tcConfig.systemRole = ""
    /\ reqDoc.kind = "object"
    /\ reqDoc.messages # <<>>

\* the token count a response with usage u reports, 0 when it reports none
reported(u) ==
    IF u = <<>> THEN 0
    ELSE IF Len(u) = 1 THEN u[1]
    ELSE u[1] + u[2]

\* C20: after a chat, tcChat or tcReply whose response was parsed,
\* getTotalTokens() is the token count that response reported, or 0 if it
\* reported none, with every vendor's handler: the count of an earlier
\* response is never kept.
C20_TotalTokensAreThoseOfTheLastResponse ==
    (op \in {"chat", "tcChat", "tcReply"} /\ stage = "parsed")
    => getTotalTokens(handler, hTokens) = reported(Usage[OwnRaw(op)])

\* C21: every element of a tool-call array that tcChat or tcReply returns
\* has an id, a function.name and a function.arguments string, whichever
\* vendor's handler produced it.
C21_ToolCallsHaveUniformShape ==
    (op \in {"tcChat", "tcReply"} /\ ret.kind = "array")
    => \A i \in 1..Len(ret.calls) :
          /\ ret.calls[i].id # ABSENT
          /\ ret.calls[i].name # ABSENT
          /\ ret.calls[i].args # ABSENT

\* C22: a max-tokens setter of any of the three call configurations, called
\* with the integer v, stores v clamped from below at 1: the matching getter
\* returns max(1, v) afterwards.
C22_MaxTokenSettersClampAtOne ==
    [][ \A v \in MaxTokenValues :
          LET clamped == IF v > 1 THEN v ELSE 1
          IN  /\ setChatMaxTokens(v) => chatConfig'.maxTokens = clamped
              /\ setTCChatMaxTokens(v) => tcConfig'.maxToken = clamped
              /\ setTCReplyMaxTokens(v) => tcConfig'.followUpMaxToken = clamped ]_vars

\* chat has posted a body: the request document holds it
ChatBuilt == op = "chat" /\ stage \in Posted

\* C24: every request body the Claude adapter builds, for chat, for a tool
\* call and for a follow-up, has max_tokens: the configured value when one
\* is set, 1024 otherwise; it is never left out.
C24_ClaudeBodiesCarryMaxTokens ==
    (handler = "claude" /\ op \in {"chat", "tcChat", "tcReply"} /\ stage \in Posted)
    => LET configured == CASE op = "chat"   -> chatConfig.maxTokens
                           [] op = "tcChat" -> tcConfig.maxToken
                           [] OTHER         -> tcConfig.followUpMaxToken
       IN  /\ reqDoc.kind = "object"
           /\ reqDoc.maxTokens = IF configured > 0 THEN configured
                                 ELSE CLAUDE_DEFAULT_MAX_TOKENS

\* a tcReply of the Claude adapter whose follow-up body was built and posted
ClaudeFollowUpBuilt == Did("tcReply") /\ handler = "claude" /\ stage' \in Posted

\* C23: the follow-up body the Claude adapter builds from a stored array of n
\* tool calls has an assistant turn of exactly n + 1 content blocks: first
\* one placeholder text block, then n tool_use blocks, in the order of the
\* stored calls and with their ids and names.
C23_ClaudeAssistantTurnHasPlaceholderThenCalls ==
    [][ ClaudeFollowUpBuilt
        => LET stored == lastAssistantToolCallsJson.calls
               content == reqDoc'.messages[2].calls
           IN  /\ reqDoc'.messages[2].role = "assistant"
               /\ Len(content) = Len(stored) + 1
               /\ content[1].type = "text"
               /\ \A i \in 1..Len(stored) :
                     /\ content[i + 1].type = "tool_use"
                     /\ stored[i].id # ABSENT => content[i + 1].id = stored[i].id
                     /\ stored[i].name # ABSENT => content[i + 1].name = stored[i].name ]_vars

\* a Claude follow-up has been posted for a stored array of two tool calls
C23_Witness ==
    /\ op = "tcReply" /\ handler = "claude" /\ stage \in Posted
    /\ Len(reqDoc.messages) = 3
    /\ Len(reqDoc.messages[2].calls) = 3
    /\ reqDoc.messages[2].calls[2].id # reqDoc.messages[2].calls[3].id

RECURSIVE TypesUpperCased(_, _)
\* out is the schema src with every type name upper-cased, at every depth
TypesUpperCased(src, out) ==
    /\ out.type = toUpperCase(src.type)
    /\ Len(out.properties) = Len(src.properties)
    /\ \A i \in 1..Len(src.properties) :
          /\ out.properties[i][1] = src.properties[i][1]
          /\ TypesUpperCased(src.properties[i][2], out.properties[i][2])
    /\ Len(out.items) = Len(src.items)
    /\ \A i \in 1..Len(src.items) : TypesUpperCased(src.items[i], out.items[i])

\* C25: in a request the Gemini adapter builds, every type name of a
\* registered tool's parameter schema appears upper-cased ("object" as
\* "OBJECT"), at every nesting depth of the schema.
C25_GeminiUpperCasesTypesAtEveryDepth ==
    (handler = "gemini" /\ op \in {"tcChat", "tcReply"} /\ stage \in Posted)
    => /\ Len(reqDoc.tools) = Len(tools)
       /\ \A i \in 1..Len(tools) :
             reqDoc.tools[i].parameters # <<>>
             => TypesUpperCased(ParametersOf(tools[i].nm), reqDoc.tools[i].parameters[1])

\* C26: in the body of every chat request, of every vendor, the fields the
\* adapter writes itself (the model, the messages, the system prompt, the
\* streaming flag) never come from the custom parameters.
C26_ManagedFieldsAreNotTakenFromCustomParameters ==
    ChatBuilt
    => /\ reqDoc.model # "custom-model"
       /\ \A i \in 1..Len(reqDoc.messages) : reqDoc.messages[i].text # "custom message"
       /\ reqDoc.system # "custom system"
       /\ "stream" \notin reqDoc.other

\* C27: the body chat posts depends on the model, the chat configuration,
\* the custom parameters and the user message alone: it is the body built
\* from a cleared document, with no field left in the request document by an
\* earlier chat, tcChat, tcReply or setTCTools, for every vendor.
C27_ChatBodyIsBuiltFromAClearedDocument ==
    [][ \A n \in ConfiguredTransport(TRUE, ChatBodyIds(handler)) :
          (chat("hello", n) /\ stage' \in Posted)
          => reqDoc' = buildRequestBody(handler, rev, chatConfig.systemRole, chatConfig.maxTokens,
                                        "hello", NullDoc, chatConfig.customParams).doc ]_vars

\* C28: after a tcChat or tcReply, a finish reason of "tool_calls" or
\* "tool_use" means that this very call parsed a response and returned a
\* non-empty tool-call array; a call that failed before a response was
\* parsed does not leave the finish reason of an earlier response standing.
C28_ToolCallFinishReasonBelongsToThisCall ==
    (op \in {"tcChat", "tcReply"} /\ hFinish \in {"tool_calls", "tool_use"})
    => /\ stage = "parsed"
       /\ ret.kind = "array"
       /\ Len(ret.calls) >= 1

\* C29: begin, whether it builds a handler, switches vendor or fails, and
\* setTCTools, whether it accepts the array or rejects it, leave
\* lastUserMessage, lastAssistantToolCallsJson and the awaiting flag as
\* they were.
C29_BeginAndSetTCToolsLeaveTheConversation ==
    [][ (Did("begin") \/ Did("setTCTools")) => UNCHANGED conv ]_vars

\* begin has given a client that awaits tool results another vendor's handler
C29_Witness ==
    /\ op = "begin"
    /\ calls >= 2
    /\ lastMessageWasToolCalls
    /\ lastUserMessage # ""
    /\ handler \in {"gemini", "none"}
    /\ lastAssistantToolCallsJson.kind = "array"
    /\ lastAssistantToolCallsJson.calls[1].id \in {"tu_1", "call_1"}

\* the tool-call blocks of a request body: the calls of its messages, a
\* placeholder text block apart
RequestCalls(doc) ==
    UNION { {doc.messages[i].calls[j] : j \in 1..Len(doc.messages[i].calls)} :
            i \in 1..Len(doc.messages) }

\* the number of tool results a request body carries
RECURSIVE ResultCount(_)
ResultCount(messages) ==
    IF messages = <<>> THEN 0
    ELSE Len(Head(messages).results) + ResultCount(Tail(messages))

====
